---- MODULE Spec2Model ----
(***************************************************************************)
(* Credential liveness controller (src/hooks/useSessionManager.ts) of the  *)
(* subflow task manager, as a state machine.  Every step of the model is   *)
(* one run of JavaScript between two awaits: a timer callback, an event    *)
(* handler, or the continuation of an awaited promise.  Continuations of   *)
(* already-resolved promises (microtasks) run before the next timer or     *)
(* event is dispatched.                                                    *)
(***************************************************************************)
EXTENDS Integers, Sequences, FiniteSets, Bags, TLC

(* ---------------------------- bounds ----------------------------------- *)
\* wall-clock seconds run from 1 to MaxTime
MaxTime == 2
\* number of performSessionCheck / validateSession calls that may be in flight
MaxInFlight == 2
\* cap on retryCountRef.current (it is unbounded when maxRetries is undefined)
MaxCount == 5

(* ------------------------- JavaScript values --------------------------- *)
\* a JavaScript value that is either a number or undefined
Undefined == [t |-> "undefined", n |-> 0]
Num(n) == [t |-> "number", n |-> n]

\* ToBoolean: undefined and 0 are falsy
Truthy(v) == v.t = "number" /\ v.n # 0

\* a < b: false whenever an operand is undefined (NaN)
Lt(a, b) == a.t = "number" /\ b.t = "number" /\ a.n < b.n

\* a > b in the place of a >= b: a threshold that is one too high
Ge_Strict(a, b) == a.t = "number" /\ b.t = "number" /\ a.n > b.n

\* a >= b: false whenever an operand is undefined (NaN)
Ge(a, b) == a.t = "number" /\ b.t = "number" /\ a.n >= b.n

\* a || b
Or(a, b) == IF Truthy(a) THEN a ELSE b

\* { ...a, ...b }: every own key of b, present with the value undefined
\* included, overrides the key of a
Spread(a, b) ==
  [k \in (DOMAIN a) \cup (DOMAIN b) |-> IF k \in DOMAIN b THEN b[k] ELSE a[k]]

\* String.prototype.includes on strings written as sequences of tokens
Includes(key, pat) ==
  \E i \in 1..(Len(key) - Len(pat) + 1) : SubSeq(key, i, i + Len(pat) - 1) = pat

(* --------------------------- configuration ----------------------------- *)
OptionNames == {"checkInterval", "cleanupInterval", "maxRetries"}

DEFAULT_CONFIG ==
  [checkInterval |-> Num(60000), cleanupInterval |-> Num(172800000),
   maxRetries |-> Num(3)]

\* the object literal { checkInterval, cleanupInterval, maxRetries } that
\* SessionManagerProvider builds from its props: all three keys are present,
\* a prop that was not supplied has the value undefined
SessionManagerProvider(props) ==
  [k \in OptionNames |-> IF k \in DOMAIN props THEN props[k] ELSE Undefined]

\* useRef({ ...DEFAULT_CONFIG, ...config })
useSessionManagerConfig(config) == Spread(DEFAULT_CONFIG, config)

\* the config object useSessionManager receives, by way of creation
ConfigOf(m) ==
  IF m.via = "provider" THEN SessionManagerProvider(m.options) ELSE m.options

\* the empty object {}
EmptyObject == [k \in {} |-> Undefined]

\* the ways the controller is created in the model
Creations ==
  { [via |-> v, options |-> o] :
      v \in {"hook", "provider"},
      o \in { EmptyObject, [k \in {"maxRetries"} |-> Num(2)] } }

(* ----------------------------- credentials ----------------------------- *)
\* session is null
NoSession == [held |-> FALSE, decodable |-> FALSE, exp |-> Undefined]

\* a held session: whether the claims segment of access_token decodes, and
\* the exp claim it decodes to (undefined: no exp claim)
Credentials ==
  { [held |-> TRUE, decodable |-> FALSE, exp |-> Undefined] } \cup
  { [held |-> TRUE, decodable |-> TRUE, exp |-> e] :
      e \in {Undefined} \cup { Num(n) : n \in 0..MaxTime } }

(* ------------------------------- storage ------------------------------- *)
\* keys of the browser storages, as sequences of tokens
KEY_SB == <<"sb", "-", "ref", "-", "auth", "-", "token">>
KEY_LEGACY == <<"supabase", ".", "auth", ".", "token">>
KEY_THEME == <<"theme">>

\* Object.keys(storage), in order
StorageKeys == <<KEY_SB, KEY_LEGACY, KEY_THEME>>

KeySet == { StorageKeys[i] : i \in 1..Len(StorageKeys) }

\* stored values: no entry, the empty string, text that JSON.parse rejects,
\* the JSON text null, or a JSON object with its expires_at and exp fields
Absent == [kind |-> "absent", expires_at |-> Undefined, exp |-> Undefined]
Empty == [kind |-> "empty", expires_at |-> Undefined, exp |-> Undefined]
Corrupt == [kind |-> "corrupt", expires_at |-> Undefined, exp |-> Undefined]
JsonNull == [kind |-> "null", expires_at |-> Undefined, exp |-> Undefined]
Obj(ea, e) == [kind |-> "object", expires_at |-> ea, exp |-> e]

EmptyStorage == [k \in KeySet |-> Absent]

\* keys with an entry, in Object.keys order
ObjectKeys(store) == SelectSeq(StorageKeys, LAMBDA k : store[k].kind # "absent")

\* JSON.parse(item) followed by the reads of parsed.expires_at and parsed.exp
\* throws: on unparseable text, and on the JSON text null
ParseThrows(v) == v.kind \in {"corrupt", "null"}

\* an entry that parsed, carries an expiry and whose expiry is before t
ExpiredAt(v, t) ==
  /\ Truthy(v.expires_at) \/ Truthy(v.exp)
  /\ Lt(Or(v.expires_at, v.exp), Num(t))

\* the filter over Object.keys(localStorage)
IsLocalAuthKey(key) ==
  \/ Includes(key, <<"supabase">>)
  \/ Includes(key, <<"auth">>)
  \/ Includes(key, <<"session">>)
  \/ Includes(key, <<"token">>)

\* a filter that lets every key of sessionStorage through
IsSessionAuthKey_Any(key) == TRUE

\* the filter over Object.keys(sessionStorage)
IsSessionAuthKey(key) ==
  \/ Includes(key, <<"supabase">>)
  \/ Includes(key, <<"auth">>)
  \/ Includes(key, <<"session">>)

\* body of the loop over the auth keys of localStorage: is the entry removed
RemovesLocal(key, v, t) ==
  IF v.kind = "empty" THEN FALSE
  ELSE IF ParseThrows(v) THEN Includes(key, KEY_LEGACY)
  ELSE ExpiredAt(v, t)

\* body of the loop over the auth keys of sessionStorage
RemovesSession(key, v, t) ==
  IF v.kind = "empty" THEN FALSE
  ELSE IF ParseThrows(v) THEN TRUE
  ELSE ExpiredAt(v, t)

\* the loop over the auth keys of localStorage
RECURSIVE CleanLocal(_, _, _)
CleanLocal(keys, store, t) ==
  IF keys = << >> THEN store
  ELSE LET key == Head(keys)
           next == IF IsLocalAuthKey(key) /\ RemovesLocal(key, store[key], t)
                   THEN [store EXCEPT ![key] = Absent]
                   ELSE store
       IN CleanLocal(Tail(keys), next, t)

\* the loop over the auth keys of sessionStorage
RECURSIVE CleanSession(_, _, _)
CleanSession(keys, store, t) ==
  IF keys = << >> THEN store
  ELSE LET key == Head(keys)
           next == IF IsSessionAuthKey(key) /\ RemovesSession(key, store[key], t)
                   THEN [store EXCEPT ![key] = Absent]
                   ELSE store
       IN CleanSession(Tail(keys), next, t)

\* cleanupExpiredSessions: both storages after one pass at time t
cleanupExpiredSessions(local, sess, t) ==
  [local |-> CleanLocal(ObjectKeys(local), local, t),
   session |-> CleanSession(ObjectKeys(sess), sess, t)]

(* -------------------------- validateSession ---------------------------- *)
\* validateSession up to its first await: "false" when it returns false
\* without calling the auth provider, "getUser" when it calls getUser
validateSessionSync(s, t) ==
  IF ~s.held THEN "false"
  ELSE IF ~s.decodable THEN "false"
  ELSE IF Truthy(s.exp) /\ Lt(s.exp, Num(t)) THEN "false"
  ELSE "getUser"

\* what supabase.auth.getUser() can answer
GetUserResults == {"user", "error", "noUser", "throws"}

\* validateSession after the await: the value it returns
validateSessionResult(r) == r = "user"

\* a validateSession that leaves the retry count alone on success
retryCountAfterValidate_NoReset(r, count) == count

\* validateSession after the await: retryCountRef.current, reset on success
retryCountAfterValidate(r, count) == IF validateSessionResult(r) THEN 0 ELSE count

(* ------------------------------- state --------------------------------- *)
VARIABLES
  phase,              \* "initial", "mounted" or "unmounted"
  creation,           \* how the controller is created: via and options
  configRef,          \* configRef.current
  session,            \* the session of the auth context
  retryCountRef,      \* retryCountRef.current
  checkIntervalRef,   \* "undefined", "armed" or "cleared"
  cleanupIntervalRef, \* "undefined", "armed" or "cleared"
  documentHidden,     \* document.hidden
  now,                \* Math.floor(Date.now() / 1000)
  localStorage,
  sessionStorage,
  calls,              \* the bag of the calls in flight
  ev,                 \* history: the step taken last
  before,             \* history: retryCountRef.current before that step
  streak,             \* history: failed validations of check runs in a row
  streakSignOuts,     \* history: provider signOut calls of the current streak
  overlapped,         \* history: two calls have been in flight together
  signOutFailed,      \* history: a signOut() of the auth context has thrown
  subtask,            \* EnhancedSubtaskItem: the persisted name and content
  isEditing,          \* EnhancedSubtaskItem: the isEditing state
  editData,           \* EnhancedSubtaskItem: the edited name and content
  attachedFiles,      \* EnhancedSubtaskItem: the files uploaded in this edit
  extractLog,         \* history: the calls of extractFileUrls and their results
  authUser,           \* the user supabase.auth knows, or "none"
  store,              \* the objects of the subtask-attachments bucket
  generated,          \* the ids uuidv4() has given out
  pending,            \* the bag of the handleFileSelect calls in flight
  isUploading,        \* FileUpload: the isUploading state of the mounted widget
  toast,              \* the toast shown last
  outcome,            \* how the last call of the file service ended
  task,               \* the task that exportTaskToPdf is called with
  pdf                 \* the texts addText has put in the exported document

\* the state of the subtask editor
editorVars == <<subtask, isEditing, editData, attachedFiles>>

\* the state of the upload widget, the file service and what they talk to
serviceVars ==
  <<extractLog, authUser, store, generated, pending, isUploading, toast,
    outcome, task, pdf>>

\* no toast
NoToast == [title |-> "", description |-> << >>]

\* no reference to an uploaded file
NoRef == [name |-> << >>, url |-> << >>]

\* no call, of no file
NoCall ==
  [pc |-> "",
   file |-> [name |-> << >>, type |-> << >>, size |-> 0, bytes |-> ""],
   userId |-> "", fileName |-> << >>, key |-> << >>, stale |-> FALSE]

\* no call of the file service has ended
NoOutcome ==
  [op |-> "", call |-> NoCall, key |-> << >>, reply |-> "", threw |-> FALSE,
   message |-> << >>, ref |-> NoRef]

\* no upload widget is mounted, nothing is stored, nobody is signed in
ServiceIdle ==
  /\ task = [content |-> << >>, subtasks |-> << >>]
  /\ pdf = << >>
  /\ extractLog = << >>
  /\ authUser = "none"
  /\ store = {}
  /\ generated = {}
  /\ pending = EmptyBag
  /\ isUploading = FALSE
  /\ toast = NoToast
  /\ outcome = NoOutcome

\* the calls in flight once the widget that started them is unmounted
widgetUnmounted(cs) ==
  LET gone(c) == [c EXCEPT !.stale = TRUE]
  IN [d \in { gone(c) : c \in BagToSet(cs) } |->
        CopiesIn(d, cs) + CopiesIn([d EXCEPT !.stale = FALSE], cs)]

\* the state of the session manager, but for the step label ev
controllerVars ==
  <<phase, creation, configRef, session, retryCountRef, checkIntervalRef,
    cleanupIntervalRef, documentHidden, now, localStorage, sessionStorage,
    calls, before, streak, streakSignOuts, overlapped, signOutFailed>>

vars ==
  <<phase, creation, configRef, session, retryCountRef, checkIntervalRef,
    cleanupIntervalRef, documentHidden, now, localStorage, sessionStorage,
    calls, ev, before, streak, streakSignOuts, overlapped, signOutFailed,
    subtask, isEditing, editData, attachedFiles,
    extractLog, authUser, store, generated, pending, isUploading, toast,
    outcome, task, pdf>>

\* no subtask is shown: the editor holds an empty subtask and is closed
EditorClosed ==
  /\ subtask = [name |-> <<"t">>, content |-> << >>]
  /\ isEditing = FALSE
  /\ editData = [name |-> <<"t">>, content |-> << >>]
  /\ attachedFiles = << >>

\* a call in flight: where it waits, whether it is a performSessionCheck
\* ("check") or a validateSession called directly ("validate"), and the
\* value its validation gave
Call(pc, kind, valid) == [pc |-> pc, kind |-> kind, valid |-> valid]

\* a call waits for the network
MacroPcs == {"getUser", "signOut"}

\* a call waits for a promise that is already resolved
MicroPcs == {"validated", "cleaned", "purged", "signedOut"}

InFlight(cs) == BagToSet(cs)

NoMicrotask == \A c \in InFlight(calls) : c.pc \notin MicroPcs

\* bag cs after call c has moved on to d, has ended, has started
Moved(cs, c, d) == (cs (-) SetToBag({c})) (+) SetToBag({d})
Ended(cs, c) == cs (-) SetToBag({c})
Started(cs, d) == cs (+) SetToBag({d})

Init ==
  /\ phase = "initial"
  /\ creation \in Creations
  /\ configRef = DEFAULT_CONFIG
  /\ session = NoSession
  /\ retryCountRef = 0
  /\ checkIntervalRef = "undefined"
  /\ cleanupIntervalRef = "undefined"
  /\ documentHidden = FALSE
  /\ now = 1
  /\ localStorage \in { EmptyStorage, [EmptyStorage EXCEPT ![KEY_LEGACY] = Corrupt] }
  /\ sessionStorage = EmptyStorage
  /\ calls = EmptyBag
  /\ ev = "init"
  /\ before = 0
  /\ streak = 0
  /\ streakSignOuts = 0
  /\ overlapped = FALSE
  /\ signOutFailed = FALSE
  /\ EditorClosed
  /\ ServiceIdle

(* ------------------------- history variables --------------------------- *)
\* two calls have been in flight together
NextOverlapped(cs, st) == overlapped \/ BagCardinality(cs) >= 2

\* a further call may start: a free slot, and room under the cap for every
\* call in flight to count one more failure
CanStart ==
  /\ BagCardinality(calls) < MaxInFlight
  /\ retryCountRef + BagCardinality(calls) < MaxCount

(* ------------------------------ effects -------------------------------- *)
\* a check effect that sets the interval whether or not there is a session
checkEffect_NoSessionTest(ref, s) == "armed"

\* the periodic check effect when it runs again for session s: the cleanup
\* of the previous run clears the interval the ref holds, then the interval
\* is set if there is a session
checkEffect(ref, s) ==
  IF s.held THEN "armed"
  ELSE IF ref = "undefined" THEN "undefined" ELSE "cleared"

\* a clearInterval that does nothing
clearIntervalRef_Noop(ref) == ref

\* clearInterval on what a ref holds
clearIntervalRef(ref) == IF ref = "undefined" THEN "undefined" ELSE "cleared"

(* ------------------------- the auth context ---------------------------- *)
\* the entry the auth provider keeps in localStorage for a held session
Artifact(c) == Obj(IF c.decodable THEN c.exp ELSE Undefined, Undefined)

\* a session is issued (sign-in); the provider mirrors it into localStorage
SignIn(c) ==
  /\ phase # "unmounted"
  /\ NoMicrotask
  /\ ~session.held
  /\ session' = c
  /\ localStorage' = [localStorage EXCEPT ![KEY_SB] = Artifact(c)]
  /\ checkIntervalRef' =
       IF phase = "mounted" THEN checkEffect(checkIntervalRef, c) ELSE checkIntervalRef
  /\ ev' = "signIn"
  /\ before' = retryCountRef
  /\ UNCHANGED editorVars
  /\ UNCHANGED serviceVars
  /\ overlapped' = NextOverlapped(calls, streak)
  /\ UNCHANGED <<phase, creation, configRef, retryCountRef, cleanupIntervalRef,
                 documentHidden, now, sessionStorage, calls, streak,
                 streakSignOuts, signOutFailed>>

\* the session is dropped by the user's own sign-out
SignOutUser ==
  /\ phase # "unmounted"
  /\ NoMicrotask
  /\ session.held
  /\ session' = NoSession
  /\ localStorage' = [localStorage EXCEPT ![KEY_SB] = Absent]
  /\ checkIntervalRef' =
       IF phase = "mounted" THEN checkEffect(checkIntervalRef, NoSession)
       ELSE checkIntervalRef
  /\ ev' = "signOutUser"
  /\ before' = retryCountRef
  /\ UNCHANGED editorVars
  /\ UNCHANGED serviceVars
  /\ overlapped' = NextOverlapped(calls, streak)
  /\ UNCHANGED <<phase, creation, configRef, retryCountRef, cleanupIntervalRef,
                 documentHidden, now, sessionStorage, calls, streak,
                 streakSignOuts, signOutFailed>>

(* ------------------------- useSessionManager --------------------------- *)
\* a cleanup effect without the pass at start
initialCleanup_Skipped(local, sess, t) == [local |-> local, session |-> sess]

\* the cleanup effect's "Run initial cleanup": one pass when it runs
initialCleanup(local, sess, t) == cleanupExpiredSessions(local, sess, t)

\* first render and its effects: the config is merged, the check interval is
\* set if there is a session, the cleanup interval is set and one cleanup
\* pass runs, the visibility listener is added
Mount ==
  /\ phase = "initial"
  /\ phase' = "mounted"
  /\ configRef' = useSessionManagerConfig(ConfigOf(creation))
  /\ checkIntervalRef' = checkEffect(checkIntervalRef, session)
  /\ cleanupIntervalRef' = "armed"
  /\ LET cl == initialCleanup(localStorage, sessionStorage, now)
     IN /\ localStorage' = cl.local
        /\ sessionStorage' = cl.session
  /\ ev' = "mount"
  /\ before' = retryCountRef
  /\ UNCHANGED editorVars
  /\ UNCHANGED serviceVars
  /\ UNCHANGED <<creation, session, retryCountRef, documentHidden, now, calls,
                 streak, streakSignOuts, overlapped, signOutFailed>>

\* performSessionCheck up to its first await
performSessionCheckStart ==
  IF ~session.held
  THEN LET cl == cleanupExpiredSessions(localStorage, sessionStorage, now)
       IN /\ localStorage' = cl.local
          /\ sessionStorage' = cl.session
          /\ calls' = Started(calls, Call("cleaned", "check", FALSE))
  ELSE /\ UNCHANGED <<localStorage, sessionStorage>>
       /\ calls' = Started(calls,
            IF validateSessionSync(session, now) = "getUser"
            THEN Call("getUser", "check", FALSE)
            ELSE Call("validated", "check", FALSE))

\* the check interval fires
Tick ==
  /\ checkIntervalRef = "armed"
  /\ NoMicrotask
  /\ CanStart
  /\ performSessionCheckStart
  /\ ev' = "tick"
  /\ before' = retryCountRef
  /\ UNCHANGED editorVars
  /\ UNCHANGED serviceVars
  /\ overlapped' = NextOverlapped(calls', streak)
  /\ UNCHANGED <<phase, creation, configRef, session, retryCountRef,
                 checkIntervalRef, cleanupIntervalRef, documentHidden, now,
                 streak, streakSignOuts, signOutFailed>>

\* a handler that does not look at document.hidden
handleVisibilityChange_NoHiddenTest(h) == session.held

\* handleVisibilityChange when document.hidden has become h: does it call
\* performSessionCheck
handleVisibilityChange(h) == ~h /\ session.held

\* the document becomes hidden or visible; the listener is there while mounted
VisibilityChange ==
  /\ NoMicrotask
  /\ documentHidden' = ~documentHidden
  /\ IF phase = "mounted" /\ handleVisibilityChange(documentHidden')
     THEN /\ CanStart
          /\ performSessionCheckStart
          /\ ev' = "visibleCheck"
     ELSE /\ UNCHANGED <<localStorage, sessionStorage, calls>>
          /\ ev' = IF documentHidden' THEN "hidden" ELSE "visible"
  /\ before' = retryCountRef
  /\ UNCHANGED editorVars
  /\ UNCHANGED serviceVars
  /\ overlapped' = NextOverlapped(calls', streak)
  /\ UNCHANGED <<phase, creation, configRef, session, retryCountRef,
                 checkIntervalRef, cleanupIntervalRef, now, streak,
                 streakSignOuts, signOutFailed>>

\* a caller of the hook calls the validateSession it returned
ValidateCall ==
  /\ phase = "mounted"
  /\ NoMicrotask
  /\ CanStart
  /\ calls' = Started(calls,
       IF validateSessionSync(session, now) = "getUser"
       THEN Call("getUser", "validate", FALSE)
       ELSE Call("validated", "validate", FALSE))
  /\ ev' = "validateCall"
  /\ before' = retryCountRef
  /\ UNCHANGED editorVars
  /\ UNCHANGED serviceVars
  /\ overlapped' = NextOverlapped(calls', streak)
  /\ UNCHANGED <<phase, creation, configRef, session, retryCountRef,
                 checkIntervalRef, cleanupIntervalRef, documentHidden, now,
                 localStorage, sessionStorage, streak, streakSignOuts,
                 signOutFailed>>

\* supabase.auth.getUser() answers call c with r: validateSession resets the
\* retry count and returns true on a user, returns false otherwise
GetUserReturn(c, r) ==
  /\ c.pc = "getUser"
  /\ NoMicrotask
  /\ calls' = Moved(calls, c, Call("validated", c.kind, validateSessionResult(r)))
  /\ retryCountRef' = retryCountAfterValidate(r, retryCountRef)
  /\ streak' = IF validateSessionResult(r) THEN 0 ELSE streak
  /\ ev' = IF validateSessionResult(r) THEN "getUserOk" ELSE "getUserFailed"
  /\ before' = retryCountRef
  /\ UNCHANGED editorVars
  /\ UNCHANGED serviceVars
  /\ overlapped' = NextOverlapped(calls', streak')
  /\ UNCHANGED <<phase, creation, configRef, session, checkIntervalRef,
                 cleanupIntervalRef, documentHidden, now, localStorage,
                 sessionStorage, streakSignOuts, signOutFailed>>

\* a call returns to its caller: validateSession called directly, a check
\* whose validation held, a check that found no session
Return(c) ==
  /\ \/ c.pc = "cleaned"
     \/ c.pc = "validated" /\ (c.kind = "validate" \/ c.valid)
  /\ calls' = Ended(calls, c)
  /\ ev' = IF c.pc = "cleaned" THEN "returned"
           ELSE IF c.valid THEN "returnedTrue" ELSE "returnedFalse"
  /\ before' = retryCountRef
  /\ UNCHANGED editorVars
  /\ UNCHANGED serviceVars
  /\ overlapped' = NextOverlapped(calls', streak)
  /\ UNCHANGED <<phase, creation, configRef, session, retryCountRef,
                 checkIntervalRef, cleanupIntervalRef, documentHidden, now,
                 localStorage, sessionStorage, streak, streakSignOuts,
                 signOutFailed>>

\* performSessionCheck after await validateSession() gave false: the retry
\* count goes up, and at maxRetries the cleanup pass runs
AfterFailedValidation(c) ==
  /\ c.pc = "validated" /\ c.kind = "check" /\ ~c.valid
  /\ retryCountRef' = retryCountRef + 1
  /\ streak' = streak + 1
  /\ streakSignOuts' = IF streak = 0 THEN 0 ELSE streakSignOuts
  /\ IF Ge(Num(retryCountRef'), configRef.maxRetries)
     THEN LET cl == cleanupExpiredSessions(localStorage, sessionStorage, now)
          IN /\ localStorage' = cl.local
             /\ sessionStorage' = cl.session
             /\ calls' = Moved(calls, c, Call("purged", "check", FALSE))
             /\ ev' = "purged"
     ELSE /\ UNCHANGED <<localStorage, sessionStorage>>
          /\ calls' = Ended(calls, c)
          /\ ev' = "counted"
  /\ before' = retryCountRef
  /\ UNCHANGED editorVars
  /\ UNCHANGED serviceVars
  /\ overlapped' = NextOverlapped(calls', streak')
  /\ UNCHANGED <<phase, creation, configRef, session, checkIntervalRef,
                 cleanupIntervalRef, documentHidden, now, signOutFailed>>

\* performSessionCheck after await cleanupExpiredSessions(): signOut() of the
\* auth context is called
CallSignOut(c) ==
  /\ c.pc = "purged"
  /\ calls' = Moved(calls, c, Call("signOut", "check", FALSE))
  /\ streakSignOuts' = streakSignOuts + 1
  /\ ev' = "signOutCalled"
  /\ before' = retryCountRef
  /\ UNCHANGED editorVars
  /\ UNCHANGED serviceVars
  /\ overlapped' = NextOverlapped(calls', streak)
  /\ UNCHANGED <<phase, creation, configRef, session, retryCountRef,
                 checkIntervalRef, cleanupIntervalRef, documentHidden, now,
                 localStorage, sessionStorage, streak, signOutFailed>>

\* the signOut() of call c settles: fulfilled, the session is dropped and the
\* provider removes its entry; rejected, performSessionCheck ends there
SignOutReturn(c, ok) ==
  /\ c.pc = "signOut"
  /\ NoMicrotask
  /\ IF ok
     THEN /\ session' = NoSession
          /\ localStorage' = [localStorage EXCEPT ![KEY_SB] = Absent]
          /\ checkIntervalRef' =
               IF phase = "mounted" /\ session.held
               THEN checkEffect(checkIntervalRef, NoSession)
               ELSE checkIntervalRef
          /\ calls' = Moved(calls, c, Call("signedOut", "check", FALSE))
          /\ ev' = "signedOut"
          /\ UNCHANGED signOutFailed
     ELSE /\ calls' = Ended(calls, c)
          /\ signOutFailed' = TRUE
          /\ ev' = "signOutThrew"
          /\ UNCHANGED <<session, localStorage, checkIntervalRef>>
  /\ before' = retryCountRef
  /\ UNCHANGED editorVars
  /\ UNCHANGED serviceVars
  /\ overlapped' = NextOverlapped(calls', streak)
  /\ UNCHANGED <<phase, creation, configRef, retryCountRef, cleanupIntervalRef,
                 documentHidden, now, sessionStorage, streak, streakSignOuts>>

\* performSessionCheck after await signOut(): the retry count is reset
ResetRetryCount(c) ==
  /\ c.pc = "signedOut"
  /\ retryCountRef' = 0
  /\ calls' = Ended(calls, c)
  /\ streak' = 0
  /\ ev' = "reset"
  /\ before' = retryCountRef
  /\ UNCHANGED editorVars
  /\ UNCHANGED serviceVars
  /\ overlapped' = NextOverlapped(calls', streak')
  /\ UNCHANGED <<phase, creation, configRef, session, checkIntervalRef,
                 cleanupIntervalRef, documentHidden, now, localStorage,
                 sessionStorage, streakSignOuts, signOutFailed>>

\* the cleanup interval fires
CleanupTick ==
  /\ cleanupIntervalRef = "armed"
  /\ NoMicrotask
  /\ LET cl == cleanupExpiredSessions(localStorage, sessionStorage, now)
     IN /\ localStorage' = cl.local
        /\ sessionStorage' = cl.session
  /\ ev' = "cleanupTick"
  /\ before' = retryCountRef
  /\ UNCHANGED editorVars
  /\ UNCHANGED serviceVars
  /\ UNCHANGED <<phase, creation, configRef, session, retryCountRef,
                 checkIntervalRef, cleanupIntervalRef, documentHidden, now,
                 calls, streak, streakSignOuts, overlapped, signOutFailed>>

\* what a ref holds after unmount: the cleanup of the effect that set the
\* interval clears it, then the cleanup of the unmount effect clears it again
unmountCleanups(ref) == clearIntervalRef(clearIntervalRef(ref))

\* the effects' cleanups at unmount: both intervals are cleared, the
\* visibility listener is removed
Unmount ==
  /\ phase = "mounted"
  /\ NoMicrotask
  /\ phase' = "unmounted"
  /\ checkIntervalRef' = unmountCleanups(checkIntervalRef)
  /\ cleanupIntervalRef' = unmountCleanups(cleanupIntervalRef)
  /\ ev' = "unmount"
  /\ before' = retryCountRef
  /\ UNCHANGED editorVars
  /\ UNCHANGED serviceVars
  /\ UNCHANGED <<creation, configRef, session, retryCountRef, documentHidden,
                 now, localStorage, sessionStorage, calls, streak,
                 streakSignOuts, overlapped, signOutFailed>>

\* a second passes
Advance ==
  /\ now < MaxTime
  /\ NoMicrotask
  /\ now' = now + 1
  /\ ev' = "advance"
  /\ before' = retryCountRef
  /\ UNCHANGED editorVars
  /\ UNCHANGED serviceVars
  /\ UNCHANGED <<phase, creation, configRef, session, retryCountRef,
                 checkIntervalRef, cleanupIntervalRef, documentHidden,
                 localStorage, sessionStorage, calls, streak, streakSignOuts,
                 overlapped, signOutFailed>>

\* the controller as the application runs it
Next ==
  \/ Mount
  \/ \E c \in Credentials : SignIn(c)
  \/ SignOutUser
  \/ Tick
  \/ VisibilityChange
  \/ \E c \in InFlight(calls), r \in GetUserResults : GetUserReturn(c, r)
  \/ \E c \in InFlight(calls) : Return(c)
  \/ \E c \in InFlight(calls) : AfterFailedValidation(c)
  \/ \E c \in InFlight(calls) : CallSignOut(c)
  \/ \E c \in InFlight(calls), ok \in BOOLEAN : SignOutReturn(c, ok)
  \/ \E c \in InFlight(calls) : ResetRetryCount(c)
  \/ CleanupTick
  \/ Unmount
  \/ Advance

Spec == Init /\ [][Next]_vars

\* the controller with callers of the validateSession it returns
NextApi == Next \/ ValidateCall

SpecApi == Init /\ [][NextApi]_vars

(* ------------------- the cleanup pass over cached entries -------------- *)
\* the expires_at and exp fields a cached JSON object can carry
ExpiryValues == {Undefined} \cup { Num(n) : n \in 0..MaxTime }

\* the values a cached entry can have
CachedValues ==
  {Empty, Corrupt, JsonNull} \cup
  { Obj(ea, e) : ea \in ExpiryValues, e \in ExpiryValues }

\* the storages the controller can find when it starts: any value under the
\* provider's key, a corrupt or dated entry under the legacy key, and an
\* entry of another feature under a key that is not auth-related
FoundStorages ==
  { [k \in KeySet |->
       IF k = KEY_SB THEN sb ELSE IF k = KEY_LEGACY THEN legacy ELSE theme] :
      sb \in CachedValues \cup {Absent},
      legacy \in {Absent, Corrupt, Obj(Num(1), Undefined)},
      theme \in {Corrupt, Obj(Num(0), Undefined)} }

InitStorage ==
  /\ phase = "initial"
  /\ creation = [via |-> "hook", options |-> EmptyObject]
  /\ configRef = DEFAULT_CONFIG
  /\ session = NoSession
  /\ retryCountRef = 0
  /\ checkIntervalRef = "undefined"
  /\ cleanupIntervalRef = "undefined"
  /\ documentHidden = FALSE
  /\ now = 1
  /\ localStorage \in FoundStorages
  /\ sessionStorage \in FoundStorages
  /\ calls = EmptyBag
  /\ ev = "init"
  /\ before = 0
  /\ streak = 0
  /\ streakSignOuts = 0
  /\ overlapped = FALSE
  /\ signOutFailed = FALSE
  /\ EditorClosed
  /\ ServiceIdle

\* the controller with no credential held: the cleanup loop alone
NextStorage ==
  \/ Mount
  \/ CleanupTick
  \/ Advance
  \/ Unmount

SpecStorage == InitStorage /\ [][NextStorage]_vars

(* ------------------------- strings as token lists ---------------------- *)
\* a string is a sequence of tokens; a token is a whitespace character, the
\* character ")", or a piece of text with neither in it
WhiteSpace == {" ", "\n"}

\* the path segment of the attachment bucket
SEG == "/subtask-attachments/"

\* text pat stands in s at position i
At(s, i, pat) ==
  /\ i >= 1
  /\ i + Len(pat) - 1 <= Len(s)
  /\ SubSeq(s, i, i + Len(pat) - 1) = pat

\* the last position of the longest run of tokens outside stop that starts
\* at i (i - 1 when there is none): a greedy character class
RECURSIVE RunEnd(_, _, _)
RunEnd(s, i, stop) ==
  IF i > Len(s) \/ s[i] \in stop THEN i - 1 ELSE RunEnd(s, i + 1, stop)

\* a trim that removes nothing
Trim_Nothing(s) == s

\* String.prototype.trim
RECURSIVE Trim(_)
Trim(s) ==
  IF s = << >> THEN s
  ELSE IF Head(s) \in WhiteSpace THEN Trim(Tail(s))
  ELSE IF s[Len(s)] \in WhiteSpace THEN Trim(SubSeq(s, 1, Len(s) - 1))
  ELSE s

\* Array.prototype.join
RECURSIVE Join(_, _)
Join(parts, sep) ==
  IF parts = << >> THEN << >>
  ELSE IF Len(parts) = 1 THEN parts[1]
  ELSE parts[1] \o sep \o Join(Tail(parts), sep)

(* --------------------------- FileUploadService ------------------------- *)
\* the literal parts of commentRegex
CommentOpen == <<"<!--", " ", "attachment:", " ">>
CommentClose == <<" ", "-->">>

NoMatch == [found |-> FALSE, last |-> 0, url |-> << >>]

\* commentRegex tried at position i:
\* /<!-- attachment: (https:\/\/[^\s]+) -->/
commentRegex(s, i) ==
  IF At(s, i, CommentOpen \o <<"https://">>)
  THEN LET j == RunEnd(s, i + 5, WhiteSpace)
       IN IF j >= i + 5 /\ At(s, j + 1, CommentClose)
          THEN [found |-> TRUE, last |-> j + 2, url |-> SubSeq(s, i + 4, j)]
          ELSE NoMatch
  ELSE NoMatch

\* the loop of commentRegex.exec from position i: the captured groups
RECURSIVE commentMatches(_, _)
commentMatches(s, i) ==
  IF i > Len(s) THEN << >>
  ELSE LET m == commentRegex(s, i)
       IN IF m.found THEN <<m.url>> \o commentMatches(s, m.last + 1)
          ELSE commentMatches(s, i + 1)

\* fileUrlRegex tried at position i:
\* /https:\/\/[^\s\)]+\/subtask-attachments\/[^\s\)]+/
fileUrlRegex(s, i) ==
  IF At(s, i, <<"https://">>)
  THEN LET e == RunEnd(s, i + 1, WhiteSpace \cup {")"})
       IN IF \E p \in (i + 2)..(e - 1) : s[p] = SEG
          THEN [found |-> TRUE, last |-> e, url |-> SubSeq(s, i, e)]
          ELSE NoMatch
  ELSE NoMatch

\* content.match(fileUrlRegex) || [] from position i
RECURSIVE markdownMatches(_, _)
markdownMatches(s, i) ==
  IF i > Len(s) THEN << >>
  ELSE LET m == fileUrlRegex(s, i)
       IN IF m.found THEN <<m.url>> \o markdownMatches(s, m.last + 1)
          ELSE markdownMatches(s, i + 1)

\* a list that is left as it is
NewSet_KeepAll(urls) == urls

\* [...new Set(urls)]: the first occurrence of each element, in order
RECURSIVE NewSet(_)
NewSet(urls) ==
  IF urls = << >> THEN << >>
  ELSE LET init == NewSet(SubSeq(urls, 1, Len(urls) - 1))
           last == urls[Len(urls)]
       IN IF \E i \in 1..Len(init) : init[i] = last THEN init
          ELSE Append(init, last)

\* extractFileUrls
extractFileUrls(content) ==
  NewSet(commentMatches(content, 1) \o markdownMatches(content, 1))

\* isSubtaskAttachment
isSubtaskAttachment(url) == Includes(url, <<SEG>>)

(* --------------------------- EnhancedSubtaskItem ----------------------- *)
\* `![${file.name}](${file.url})`
imageLink(file) == <<"![">> \o file.name \o <<"](">> \o file.url \o <<")">>

\* a join of the link of the first file only
fileLinks_First(files) ==
  Join([i \in 1..1 |-> imageLink(files[i])], <<"\n">>)

\* attachedFiles.map(...).join('\n')
fileLinks(files) ==
  Join([i \in 1..Len(files) |-> imageLink(files[i])], <<"\n">>)

\* a save that puts the file links before the content
contentWithFiles_Prepend(content, files) ==
  IF Len(files) > 0
  THEN IF content # << >>
       THEN fileLinks(files) \o <<"\n", "\n">> \o content
       ELSE fileLinks(files)
  ELSE content

\* handleSave's contentWithFiles: the content, and the file links after it
contentWithFiles(content, files) ==
  IF Len(files) > 0
  THEN IF content # << >>
       THEN content \o <<"\n", "\n">> \o fileLinks(files)
       ELSE fileLinks(files)
  ELSE content

\* the task store keeps the name and content that onUpdateSubtask is given
onUpdateSubtask(data) == data

\* existingFiles, computed at every render
existingFiles == extractFileUrls(subtask.content)

(* ------------------------------ bounds --------------------------------- *)
\* number of files attached in one edit
MaxFiles == 2
\* files are attached while the edited content has at most MaxLen tokens
MaxLen == 10

(* ------------------------------ inputs --------------------------------- *)
\* public URLs of attachments: two plain ones, and one of an object whose
\* extension, taken from the file name, has a ")" in it
URL_A == <<"https://", "h", SEG, "a">>
URL_B == <<"https://", "h", SEG, "b">>
URL_PAREN == <<"https://", "h", SEG, "c", ")">>

\* a URL of another site
URL_OTHER == <<"https://", "h", "/x">>

\* the files an upload can hand to handleFileUploaded
UploadedFiles ==
  { [name |-> <<"n">>, url |-> u] : u \in {URL_A, URL_B, URL_PAREN} }

\* a comment sentinel for url u
Sentinel(u) == CommentOpen \o u \o CommentClose

\* pieces of text a content can be made of: nothing, plain text, sentinels,
\* image links, and a URL written as text
Fragments ==
  { << >>, <<"t">>, Sentinel(URL_A), Sentinel(URL_PAREN), Sentinel(URL_OTHER),
    imageLink([name |-> <<"n">>, url |-> URL_A]),
    imageLink([name |-> <<"n">>, url |-> URL_B]),
    URL_A }

\* the contents a subtask can have when it is shown
Contents == { a \o b : a \in Fragments, b \in Fragments }

\* what the user can change the edited content to
TypedContents ==
  { << >>, <<"t">>, imageLink([name |-> <<"n">>, url |-> URL_B]) }

\* what the user can change the edited name to
TypedNames == { <<"t">>, <<" ">>, << >> }

(* ----------------------------- the editor ------------------------------ *)
InitEditor ==
  /\ phase = "initial"
  /\ creation = [via |-> "hook", options |-> EmptyObject]
  /\ configRef = DEFAULT_CONFIG
  /\ session = NoSession
  /\ retryCountRef = 0
  /\ checkIntervalRef = "undefined"
  /\ cleanupIntervalRef = "undefined"
  /\ documentHidden = FALSE
  /\ now = 1
  /\ localStorage = EmptyStorage
  /\ sessionStorage = EmptyStorage
  /\ calls = EmptyBag
  /\ ev = "init"
  /\ before = 0
  /\ streak = 0
  /\ streakSignOuts = 0
  /\ overlapped = FALSE
  /\ signOutFailed = FALSE
  /\ subtask \in { [name |-> <<"t">>, content |-> c] : c \in Contents }
  /\ isEditing = FALSE
  /\ editData = subtask
  /\ attachedFiles = << >>
  /\ ServiceIdle

\* the Edit button or menu item, shown while not editing; the upload widget
\* is mounted anew
handleEdit ==
  /\ ~isEditing
  /\ isEditing' = TRUE
  /\ editData' = [name |-> subtask.name, content |-> subtask.content]
  /\ ev' = "edit"
  /\ UNCHANGED <<subtask, attachedFiles>>
  /\ isUploading' = FALSE
  /\ UNCHANGED <<task, pdf, extractLog, authUser, store, generated, pending, toast, outcome>>
  /\ UNCHANGED controllerVars

\* onChange of the name input
setName(name) ==
  /\ isEditing
  /\ editData' = [editData EXCEPT !.name = name]
  /\ ev' = "named"
  /\ UNCHANGED <<subtask, isEditing, attachedFiles>>
  /\ UNCHANGED serviceVars
  /\ UNCHANGED controllerVars

\* onChange of the markdown editor
setContent(content) ==
  /\ isEditing
  /\ editData' = [editData EXCEPT !.content = content]
  /\ ev' = "typed"
  /\ UNCHANGED <<subtask, isEditing, attachedFiles>>
  /\ UNCHANGED serviceVars
  /\ UNCHANGED controllerVars

\* the upload widget, shown while editing, hands over an uploaded file; the
\* object key of every upload is new, so its URL is not in the list yet
handleFileUploaded(file) ==
  /\ isEditing
  /\ Len(attachedFiles) < MaxFiles
  /\ Len(editData.content) <= MaxLen
  /\ \A i \in 1..Len(attachedFiles) : attachedFiles[i].url # file.url
  /\ attachedFiles' = Append(attachedFiles, file)
  /\ ev' = "uploaded"
  /\ UNCHANGED <<subtask, isEditing, editData>>
  /\ UNCHANGED serviceVars
  /\ UNCHANGED controllerVars

\* a remove button that deletes the object of the file from the bucket too
handleRemoveFile_AndDelete(fileToRemove) ==
  /\ isEditing
  /\ \E i \in 1..Len(attachedFiles) : attachedFiles[i] = fileToRemove
  /\ attachedFiles' = SelectSeq(attachedFiles, LAMBDA f : f.url # fileToRemove.url)
  /\ store' = { o \in store :
                 o.key # SubSeq(fileToRemove.url, 4, Len(fileToRemove.url)) }
  /\ ev' = "removed"
  /\ UNCHANGED <<subtask, isEditing, editData>>
  /\ UNCHANGED <<task, pdf, extractLog, authUser, generated, pending, isUploading, toast,
                 outcome>>
  /\ UNCHANGED controllerVars

\* the remove button of an attached file
handleRemoveFile(fileToRemove) ==
  /\ isEditing
  /\ \E i \in 1..Len(attachedFiles) : attachedFiles[i] = fileToRemove
  /\ attachedFiles' = SelectSeq(attachedFiles, LAMBDA f : f.url # fileToRemove.url)
  /\ ev' = "removed"
  /\ UNCHANGED <<subtask, isEditing, editData>>
  /\ UNCHANGED serviceVars
  /\ UNCHANGED controllerVars

\* the Save button; with a name that is not blank the edit ends and the
\* upload widget is unmounted
handleSave ==
  /\ isEditing
  /\ IF Trim(editData.name) # << >>
     THEN /\ subtask' = onUpdateSubtask(
               [name |-> editData.name,
                content |-> contentWithFiles(editData.content, attachedFiles)])
          /\ isEditing' = FALSE
          /\ attachedFiles' = << >>
          /\ pending' = widgetUnmounted(pending)
          /\ ev' = "save"
     ELSE /\ UNCHANGED <<subtask, isEditing, attachedFiles, pending>>
          /\ ev' = "saveIgnored"
  /\ UNCHANGED editData
  /\ UNCHANGED <<task, pdf, extractLog, authUser, store, generated, isUploading, toast, outcome>>
  /\ UNCHANGED controllerVars

\* a Cancel button that deletes the objects of the attached files too
handleCancel_AndDelete ==
  /\ isEditing
  /\ editData' = [name |-> subtask.name, content |-> subtask.content]
  /\ attachedFiles' = << >>
  /\ isEditing' = FALSE
  /\ ev' = "cancel"
  /\ UNCHANGED subtask
  /\ pending' = widgetUnmounted(pending)
  /\ store' = { o \in store :
                 \A i \in 1..Len(attachedFiles) :
                   o.key # SubSeq(attachedFiles[i].url, 4,
                                  Len(attachedFiles[i].url)) }
  /\ UNCHANGED <<task, pdf, extractLog, authUser, generated, isUploading, toast, outcome>>
  /\ UNCHANGED controllerVars

\* the Cancel button; the upload widget is unmounted
handleCancel ==
  /\ isEditing
  /\ editData' = [name |-> subtask.name, content |-> subtask.content]
  /\ attachedFiles' = << >>
  /\ isEditing' = FALSE
  /\ ev' = "cancel"
  /\ UNCHANGED subtask
  /\ pending' = widgetUnmounted(pending)
  /\ UNCHANGED <<task, pdf, extractLog, authUser, store, generated, isUploading, toast, outcome>>
  /\ UNCHANGED controllerVars

NextEditor ==
  \/ handleEdit
  \/ \E name \in TypedNames : setName(name)
  \/ \E content \in TypedContents : setContent(content)
  \/ \E file \in UploadedFiles : handleFileUploaded(file)
  \/ \E file \in UploadedFiles : handleRemoveFile(file)
  \/ handleSave
  \/ handleCancel

SpecEditor == InitEditor /\ [][NextEditor]_vars

(* --------------------------- calls of extract -------------------------- *)
\* number of calls of extractFileUrls in one run
MaxCalls == 3

\* the contents extractFileUrls is called with
ExtractInputs ==
  { << >>,
    Sentinel(URL_A),
    imageLink([name |-> <<"n">>, url |-> URL_B]),
    Sentinel(URL_A) \o imageLink([name |-> <<"n">>, url |-> URL_A]),
    Sentinel(URL_OTHER) \o URL_A }

\* an array that is made once and shared by all calls: it holds what the
\* earlier calls pushed
urls_Shared(log) ==
  IF log = << >> THEN << >> ELSE log[Len(log)].pushed

\* const urls: string[] = []: a new array at every call
urls(log) == << >>

\* the two pushes: the comment matches, then the markdown matches; the
\* regexes are made anew at every call, so both scans start at position 1
pushAll(array, content) ==
  array \o commentMatches(content, 1) \o markdownMatches(content, 1)

\* one call of extractFileUrls
extractCall(content) ==
  /\ Len(extractLog) < MaxCalls
  /\ LET pushed == pushAll(urls(extractLog), content)
     IN extractLog' = Append(extractLog,
          [content |-> content, pushed |-> pushed, result |-> NewSet(pushed)])
  /\ ev' = "extract"
  /\ UNCHANGED controllerVars
  /\ UNCHANGED editorVars
  /\ UNCHANGED <<authUser, store, generated, pending, isUploading, toast,
                 outcome, task, pdf>>

InitExtract == Init

NextExtract == \E content \in ExtractInputs : extractCall(content)

SpecExtract == InitExtract /\ [][NextExtract]_vars

(* --------------------------- FileUploadService ------------------------- *)
\* number of calls of uuidv4 in one run
MaxUploads == 2
\* number of calls of handleFileSelect or of the service in flight
MaxPending == 2

\* the users of the application
Users == {"u1", "u2"}

\* uuidv4(): a value that no earlier call returned
uuidv4 == ToString(Cardinality(generated) + 1)

\* new Date().toISOString(), in tokens: date, hours, minutes, seconds,
\* milliseconds
toISOString ==
  <<"2025-01-01", "T", "10", ":", "20", ":", "30", ".", "000", "Z">>

\* .slice(0, 19).replace(/[:.]/g, '-') of an ISO time: the characters up to
\* the seconds, which are the first seven tokens, with "-" for ":" and "."
timestamp(iso) ==
  LET s == SubSeq(iso, 1, 7)
  IN [i \in 1..Len(s) |-> IF s[i] \in {":", "."} THEN "-" ELSE s[i]]

\* the index of the first token sep in s from position i, or 0
RECURSIVE IndexOf(_, _, _)
IndexOf(s, sep, i) ==
  IF i > Len(s) THEN 0
  ELSE IF s[i] = sep THEN i ELSE IndexOf(s, sep, i + 1)

\* the index of the last token sep in s at or before position i, or 0
RECURSIVE LastIndexOf(_, _, _)
LastIndexOf(s, sep, i) ==
  IF i < 1 THEN 0
  ELSE IF s[i] = sep THEN i ELSE LastIndexOf(s, sep, i - 1)

\* file.type.split('/')[1] || 'png': undefined when the type has no "/",
\* the empty string when nothing follows it, and both are falsy
extension(type) ==
  LET i == IndexOf(type, "/", 1)
      j == IF i = 0 THEN 0 ELSE IndexOf(type, "/", i + 1)
      part == IF i = 0 THEN << >>
              ELSE SubSeq(type, i + 1, IF j = 0 THEN Len(type) ELSE j - 1)
  IN IF part = << >> THEN <<"png">> ELSE part

\* the test of line 18: 'image.png', 'blob', no name, or a name that starts
\* with 'image'
isScreenshot(fileName) ==
  \/ fileName = <<"image", ".", "png">>
  \/ fileName = <<"blob">>
  \/ fileName = << >>
  \/ (fileName # << >> /\ fileName[1] = "image")

\* a fileName that is always the name of the file
fileNameOf_Verbatim(file) == file.name

\* fileName after lines 15-22
fileNameOf(file) ==
  IF isScreenshot(file.name)
  THEN <<"screenshot-">> \o timestamp(toISOString)
         \o <<".">> \o extension(file.type)
  ELSE file.name

\* fileName.split('.').pop()
fileExtension(fileName) ==
  SubSeq(fileName, LastIndexOf(fileName, ".", Len(fileName)) + 1,
         Len(fileName))

\* a storagePath made of the user and the name of the file
storagePath_ByName(userId, fileId, fileName) ==
  <<userId, "/">> \o fileName

\* `${userId}/${fileId}.${fileExtension}`
storagePath(userId, fileId, fileName) ==
  <<userId, "/", fileId, ".">> \o fileExtension(fileName)

\* upload options that let the store replace an object
uploadOptions_Upsert == [cacheControl |-> "3600", upsert |-> TRUE]

\* the options of the upload, lines 29-32
uploadOptions == [cacheControl |-> "3600", upsert |-> FALSE]

\* the first folder of a key: storage.foldername(name)[1]
foldername1(key) == key[1]

\* the object stored under key, if any
ObjectsAt(objects, key) == { o \in objects : o.key = key }

\* a store with no policy on the bucket: every caller may write every key
storageUpload_NoPolicy(objects, uid, key, bytes, options, transport) ==
  IF ~transport
  THEN [objects |-> objects, error |-> "Failed to fetch"]
  ELSE IF ObjectsAt(objects, key) # {} /\ ~options.upsert
  THEN [objects |-> objects, error |-> "The resource already exists"]
  ELSE [objects |-> (objects \ ObjectsAt(objects, key))
                      \cup {[key |-> key, bytes |-> bytes]},
        error |-> ""]

\* the store's answer to upload(key, bytes, options) sent with the session
\* of uid: the insert policy wants the first folder to be the caller, and
\* without upsert an existing key is an error; transport says whether the
\* request got through
storageUpload(objects, uid, key, bytes, options, transport) ==
  IF ~transport
  THEN [objects |-> objects, error |-> "Failed to fetch"]
  ELSE IF uid # foldername1(key)
  THEN [objects |-> objects, error |-> "new row violates row-level security policy"]
  ELSE IF ObjectsAt(objects, key) # {} /\ ~options.upsert
  THEN [objects |-> objects, error |-> "The resource already exists"]
  ELSE [objects |-> (objects \ ObjectsAt(objects, key))
                      \cup {[key |-> key, bytes |-> bytes]},
        error |-> ""]

\* encodeURI on tokens: a space is escaped, the other tokens of the model
\* are left as they are
encodeURI(s) == [i \in 1..Len(s) |-> IF s[i] = " " THEN "%20" ELSE s[i]]

\* getPublicUrl(storagePath).data.publicUrl
getPublicUrl(path) == encodeURI(<<"https://", "h", SEG>> \o path)

\* the call of uploadSubtaskAttachment up to its await: the names and the
\* key are computed and the request is sent
uploadCall(file, userId) ==
  [pc |-> "upload", file |-> file, userId |-> userId,
   fileName |-> fileNameOf(file),
   key |-> storagePath(userId, uuidv4, fileNameOf(file)),
   stale |-> FALSE]

\* an upload that returns the file whatever the store answered
uploadOutcome_Swallow(c, error) ==
  [op |-> "upload", call |-> c, key |-> c.key, reply |-> error,
   threw |-> FALSE, message |-> << >>,
   ref |-> [name |-> c.fileName, url |-> getPublicUrl(c.key)]]

\* how uploadSubtaskAttachment ends after the store answered with error
\* (lines 34-52): it throws with the store's message, or returns the file
uploadOutcome(c, error) ==
  IF error # ""
  THEN [op |-> "upload", call |-> c, key |-> c.key, reply |-> error,
        threw |-> TRUE, message |-> <<"Failed to upload file: ", error>>,
        ref |-> NoRef]
  ELSE [op |-> "upload", call |-> c, key |-> c.key, reply |-> error,
        threw |-> FALSE, message |-> << >>,
        ref |-> [name |-> c.fileName, url |-> getPublicUrl(c.key)]]

\* url.split('/') and its last part, looked for from position i down: the
\* tokens with a "/" in them are "https://", SEG, "/" and "/x", and only
\* the last has something after its "/"
RECURSIVE lastUrlPart(_, _)
lastUrlPart(url, i) ==
  IF i < 1 THEN url
  ELSE IF url[i] \in {"https://", SEG, "/", "/x"}
       THEN (IF url[i] = "/x" THEN <<"x">> ELSE << >>)
              \o SubSeq(url, i + 1, Len(url))
       ELSE lastUrlPart(url, i - 1)

\* a path that is the one the URL has in the bucket
filePath_FromUrl(url, userId) ==
  LET i == IndexOf(url, SEG, 1)
  IN SubSeq(url, i + 1, Len(url))

\* deleteSubtaskAttachment's filePath: `${userId}/${fileName}`
filePath(url, userId) == <<userId, "/">> \o lastUrlPart(url, Len(url))

\* the store's answer to remove([key]) sent with the session of uid: the
\* delete policy hides the objects of other folders, and removing nothing
\* is no error
storageRemove(objects, uid, key) ==
  IF uid = foldername1(key)
  THEN [objects |-> objects \ ObjectsAt(objects, key), error |-> ""]
  ELSE [objects |-> objects, error |-> ""]

(* ------------------------------ inputs --------------------------------- *)
\* the files the service is called with: image.png of type image/jpeg,
\* blob and a file with no name, image-2.gif, report.pdf, and notes.v 2
ServiceFiles ==
  { [name |-> n[1], type |-> n[2], size |-> 1, bytes |-> "new"] :
      n \in { << <<"image", ".", "png">>, <<"image", "/", "jpeg">> >>,
              << <<"blob">>, << >> >>,
              << << >>, <<"image", "/", "png">> >>,
              << <<"image", "-2", ".", "gif">>, <<"image", "/", "gif">> >>,
              << <<"report", ".", "pdf">>, <<"application", "/", "pdf">> >>,
              << <<"notes", ".", "v", " ", "2">>, << >> >> } }

\* an object written to the bucket before, by this or another client, under
\* the key the first upload of report.pdf by u1 computes
OLD_OBJECT == [key |-> <<"u1", "/", "1", ".", "pdf">>, bytes |-> "old"]

\* the objects the bucket can hold at the start
StoredBefore == {{}, {OLD_OBJECT}}

\* the URLs deleteSubtaskAttachment is called with: those of the objects in
\* the bucket and one of another site
DeleteUrls == { getPublicUrl(o.key) : o \in store } \cup {URL_OTHER}

(* --------------------------- calls of the service ---------------------- *)
\* a caller calls uploadSubtaskAttachment(file, userId)
serviceUpload(file, userId) ==
  /\ Cardinality(generated) < MaxUploads
  /\ BagCardinality(pending) < MaxPending
  /\ pending' = pending (+) SetToBag({uploadCall(file, userId)})
  /\ generated' = generated \cup {uuidv4}
  /\ ev' = "uploadCalled"
  /\ UNCHANGED controllerVars
  /\ UNCHANGED editorVars
  /\ UNCHANGED <<task, pdf, extractLog, authUser, store, isUploading, toast, outcome>>

\* the store answers the upload of call c, and uploadSubtaskAttachment
\* returns or throws
serviceUploadSettled(c, transport) ==
  /\ BagIn(c, pending)
  /\ c.pc = "upload"
  /\ LET r == storageUpload(store, authUser, c.key, c.file.bytes,
                            uploadOptions, transport)
     IN /\ store' = r.objects
        /\ outcome' = uploadOutcome(c, r.error)
  /\ pending' = pending (-) SetToBag({c})
  /\ ev' = "uploadSettled"
  /\ UNCHANGED controllerVars
  /\ UNCHANGED editorVars
  /\ UNCHANGED <<task, pdf, extractLog, authUser, generated, isUploading, toast>>

\* a caller calls deleteSubtaskAttachment(url, userId), and the store answers
serviceDelete(url, userId) ==
  /\ LET r == storageRemove(store, authUser, filePath(url, userId))
     IN /\ store' = r.objects
        /\ outcome' = [op |-> "delete",
                       call |-> [NoCall EXCEPT !.userId = userId],
                       key |-> filePath(url, userId),
                       reply |-> r.error, threw |-> r.error # "",
                       message |-> << >>, ref |-> [NoRef EXCEPT !.url = url]]
  /\ ev' = "deleteSettled"
  /\ UNCHANGED controllerVars
  /\ UNCHANGED editorVars
  /\ UNCHANGED <<task, pdf, extractLog, authUser, generated, pending, isUploading, toast>>

\* no session manager is mounted
ControllerUnmounted ==
  /\ phase = "initial"
  /\ creation = [via |-> "hook", options |-> EmptyObject]
  /\ configRef = DEFAULT_CONFIG
  /\ session = NoSession
  /\ retryCountRef = 0
  /\ checkIntervalRef = "undefined"
  /\ cleanupIntervalRef = "undefined"
  /\ documentHidden = FALSE
  /\ now = 1
  /\ localStorage = EmptyStorage
  /\ sessionStorage = EmptyStorage
  /\ calls = EmptyBag
  /\ ev = "init"
  /\ before = 0
  /\ streak = 0
  /\ streakSignOuts = 0
  /\ overlapped = FALSE
  /\ signOutFailed = FALSE

\* somebody or nobody is signed in, and the bucket is empty or holds an
\* object
InitService ==
  /\ ControllerUnmounted
  /\ EditorClosed
  /\ task = [content |-> << >>, subtasks |-> << >>]
  /\ pdf = << >>
  /\ extractLog = << >>
  /\ authUser \in Users \cup {"none"}
  /\ store \in StoredBefore
  /\ generated = {}
  /\ pending = EmptyBag
  /\ isUploading = FALSE
  /\ toast = NoToast
  /\ outcome = NoOutcome

NextService ==
  \/ \E file \in ServiceFiles, userId \in Users : serviceUpload(file, userId)
  \/ \E c \in BagToSet(pending), transport \in BOOLEAN :
       serviceUploadSettled(c, transport)
  \/ \E url \in DeleteUrls, userId \in Users : serviceDelete(url, userId)

SpecService == InitService /\ [][NextService]_vars

(* ------------------------------ FileUpload ----------------------------- *)
\* the maxSize prop, in MB
maxSize == 10

\* the files the user selects, drops or pastes: report.pdf, and a
\* report.pdf of 11 MB
UploadFiles ==
  { [name |-> <<"report", ".", "pdf">>, type |-> <<"application", "/", "pdf">>,
     size |-> 1, bytes |-> "new"],
    [name |-> <<"report", ".", "pdf">>, type |-> <<"application", "/", "pdf">>,
     size |-> 11 * 1024 * 1024, bytes |-> "new"] }

\* somebody signs in or out, in this or another tab
onAuthStateChange(user) ==
  /\ user # authUser
  /\ authUser' = user
  /\ ev' = "auth"
  /\ UNCHANGED controllerVars
  /\ UNCHANGED editorVars
  /\ UNCHANGED <<task, pdf, extractLog, store, generated, pending, isUploading, toast,
                 outcome>>

\* setIsUploading(false) of the finally block of call c: it changes the
\* state of the widget that started c, if that widget is still mounted
finallyIsUploading(c) == IF c.stale THEN isUploading ELSE FALSE

\* a file is selected, dropped or pasted in the mounted widget: the size
\* test, and then the call of supabase.auth.getUser is sent
handleFileSelect(file) ==
  /\ isEditing
  /\ BagCardinality(pending) < MaxPending
  /\ Cardinality(generated)
       + Cardinality({ c \in BagToSet(pending) : c.pc = "getUser" }) < MaxUploads
  /\ IF file.size > maxSize * 1024 * 1024
     THEN /\ toast' = [title |-> "File too large",
                       description |-> <<"Please select a file smaller than ",
                                         ToString(maxSize), "MB">>]
          /\ ev' = "tooLarge"
          /\ UNCHANGED <<pending, isUploading>>
     ELSE /\ isUploading' = TRUE
          /\ pending' = pending (+)
               SetToBag({[NoCall EXCEPT !.pc = "getUser", !.file = file]})
          /\ ev' = "select"
          /\ UNCHANGED toast
  /\ UNCHANGED controllerVars
  /\ UNCHANGED editorVars
  /\ UNCHANGED <<task, pdf, extractLog, authUser, store, generated, outcome>>

\* getUser of call c answers: with no user handleFileSelect throws, catches
\* and toasts; with a user it calls uploadSubtaskAttachment, which runs up
\* to its await
getUserSettled(c) ==
  /\ BagIn(c, pending)
  /\ c.pc = "getUser"
  /\ IF authUser = "none"
     THEN /\ toast' = [title |-> "Upload failed",
                       description |-> <<"User not authenticated">>]
          /\ isUploading' = finallyIsUploading(c)
          /\ pending' = pending (-) SetToBag({c})
          /\ ev' = "noUser"
          /\ UNCHANGED generated
     ELSE /\ pending' = (pending (-) SetToBag({c})) (+)
               SetToBag({[uploadCall(c.file, authUser) EXCEPT !.stale = c.stale]})
          /\ generated' = generated \cup {uuidv4}
          /\ ev' = "uploadCalled"
          /\ UNCHANGED <<toast, isUploading>>
  /\ UNCHANGED controllerVars
  /\ UNCHANGED editorVars
  /\ UNCHANGED <<task, pdf, extractLog, authUser, store, outcome>>

\* the store answers the upload of call c: uploadSubtaskAttachment returns
\* and handleFileSelect hands the file to onFileUploaded, which appends it
\* to attachedFiles, or it throws and handleFileSelect toasts the message
uploadSettled(c, transport) ==
  /\ BagIn(c, pending)
  /\ c.pc = "upload"
  /\ LET r == storageUpload(store, authUser, c.key, c.file.bytes,
                            uploadOptions, transport)
         o == uploadOutcome(c, r.error)
     IN /\ store' = r.objects
        /\ outcome' = o
        /\ IF o.threw
           THEN /\ toast' = [title |-> "Upload failed",
                             description |-> o.message]
                /\ ev' = "uploadFailed"
                /\ UNCHANGED attachedFiles
           ELSE /\ attachedFiles' = Append(attachedFiles, o.ref)
                /\ toast' = [title |-> "File uploaded",
                             description |->
                               c.file.name \o <<" uploaded successfully">>]
                /\ ev' = "uploaded"
  /\ isUploading' = finallyIsUploading(c)
  /\ pending' = pending (-) SetToBag({c})
  /\ UNCHANGED controllerVars
  /\ UNCHANGED <<subtask, isEditing, editData>>
  /\ UNCHANGED <<task, pdf, extractLog, authUser, generated>>

\* a subtask is shown, nobody is signed in, and the bucket is empty or holds
\* an object
InitUpload ==
  /\ ControllerUnmounted
  /\ subtask = [name |-> <<"t">>, content |-> <<"t">>]
  /\ isEditing = FALSE
  /\ editData = subtask
  /\ attachedFiles = << >>
  /\ task = [content |-> << >>, subtasks |-> << >>]
  /\ pdf = << >>
  /\ extractLog = << >>
  /\ authUser = "none"
  /\ store \in StoredBefore
  /\ generated = {}
  /\ pending = EmptyBag
  /\ isUploading = FALSE
  /\ toast = NoToast
  /\ outcome = NoOutcome

NextUpload ==
  \/ \E user \in {"u1", "none"} : onAuthStateChange(user)
  \/ handleEdit
  \/ \E file \in UploadFiles : handleFileSelect(file)
  \/ \E c \in BagToSet(pending) : getUserSettled(c)
  \/ \E c \in BagToSet(pending), transport \in BOOLEAN :
       uploadSettled(c, transport)
  \/ \E i \in 1..Len(attachedFiles) : handleRemoveFile(attachedFiles[i])
  \/ handleSave
  \/ handleCancel

SpecUpload == InitUpload /\ [][NextUpload]_vars

(* ------------------------------ pdfExport ------------------------------ *)
\* a lazy .*? followed by one token: the position of the first token of
\* toks from i on, with no token of stop before it, or 0 when there is none
RECURSIVE lazyUpTo(_, _, _, _)
lazyUpTo(s, i, toks, stop) ==
  IF i > Len(s) THEN 0
  ELSE IF s[i] \in toks THEN i
  ELSE IF s[i] \in stop THEN 0
  ELSE lazyUpTo(s, i + 1, toks, stop)

\* /!\[.*?\]\(.*?\)/ tried at position i: the position of the last token of
\* the match, or 0; without the s flag a dot is no line break
imageMarkdown(s, i) ==
  IF s[i] = "!["
  THEN LET j == lazyUpTo(s, i + 1, {"]("}, {"\n"})
       IN IF j = 0 THEN 0 ELSE lazyUpTo(s, j + 1, {")"}, {"\n"})
  ELSE 0

\* .replace(/!\[.*?\]\(.*?\)/g, '[image]') from position i
RECURSIVE replaceImages(_, _)
replaceImages(s, i) ==
  IF i > Len(s) THEN << >>
  ELSE LET e == imageMarkdown(s, i)
       IN IF e # 0 THEN <<"[image]">> \o replaceImages(s, e + 1)
          ELSE <<s[i]>> \o replaceImages(s, i + 1)

\* .replace(/<!--.*?-->/gs, '') from position i; with the s flag a dot is
\* any character
RECURSIVE replaceComments(_, _)
replaceComments(s, i) ==
  IF i > Len(s) THEN << >>
  ELSE LET e == IF s[i] = "<!--" THEN lazyUpTo(s, i + 1, {"-->"}, {}) ELSE 0
       IN IF e # 0 THEN replaceComments(s, e + 1)
          ELSE <<s[i]>> \o replaceComments(s, i + 1)

\* cleanContent of the task's description
cleanContentOfTask(content) == replaceComments(replaceImages(content, 1), 1)

\* cleanContent of a subtask
cleanContentOfSubtask(content) ==
  Trim(replaceComments(replaceImages(content, 1), 1))

\* addText(text, fontSize) on document doc
addText(doc, text, fontSize) == Append(doc, [text |-> text, fontSize |-> fontSize])

\* the texts of the subtasks from the i-th on, none of them completed,
\* skipped or in a group
RECURSIVE subtaskBlock(_, _, _)
subtaskBlock(doc, t, i) ==
  IF i > Len(t.subtasks) THEN doc
  ELSE LET named == addText(doc, <<"o", " ">> \o t.subtasks[i].name, 11)
           cleanContent == cleanContentOfSubtask(t.subtasks[i].content)
       IN subtaskBlock(
            IF t.subtasks[i].content # << >> /\ cleanContent # << >>
            THEN addText(named, <<" ", " ", " ">> \o cleanContent, 9)
            ELSE named,
            t, i + 1)

\* the contents of the exported task and of its subtask, made of two
\* pieces: text, a line break, a sentinel, image links as handleSave writes
\* them, and a comment that is no sentinel
ExportContents ==
  LET pieces ==
        { << >>, <<"t">>, <<"\n">>, Sentinel(URL_A),
          imageLink([name |-> <<"n">>, url |-> URL_A]),
          imageLink([name |-> <<"n">>, url |-> URL_PAREN]),
          <<"<!--", " ", "t", " ", "-->">> }
  IN { a \o b : a \in pieces, b \in pieces }

\* exportTaskToPdf(task): a new document with the description and the
\* subtasks; the title block and the dates are left out
exportTaskToPdf ==
  /\ LET described ==
           IF task.content # << >>
           THEN addText(addText(<< >>, <<"Description">>, 12),
                        cleanContentOfTask(task.content), 10)
           ELSE << >>
     IN pdf' = subtaskBlock(
                 IF Len(task.subtasks) > 0
                 THEN addText(described, <<"Subtasks">>, 14)
                 ELSE described,
                 task, 1)
  /\ ev' = "export"
  /\ UNCHANGED task
  /\ UNCHANGED controllerVars
  /\ UNCHANGED editorVars
  /\ UNCHANGED <<extractLog, authUser, store, generated, pending, isUploading,
                 toast, outcome>>

\* a task with a description and one subtask, not exported yet
InitPdf ==
  /\ ControllerUnmounted
  /\ EditorClosed
  /\ task \in { [content |-> c,
                 subtasks |-> << [name |-> <<"s">>, content |-> d] >>] :
                c \in ExportContents, d \in ExportContents }
  /\ pdf = << >>
  /\ extractLog = << >>
  /\ authUser = "none"
  /\ store = {}
  /\ generated = {}
  /\ pending = EmptyBag
  /\ isUploading = FALSE
  /\ toast = NoToast
  /\ outcome = NoOutcome

SpecPdf == InitPdf /\ [][exportTaskToPdf]_vars

(* --------------------------- what the hook returns --------------------- *)
\* isActive: !!checkIntervalRef.current, as a render computes it now; a
\* cleared interval leaves its id in the ref, and an id is truthy
isActive == checkIntervalRef # "undefined"

(* ------------------------------ claims --------------------------------- *)
\* number of calls of bag cs that wait at one of pcs
AtPc(cs, pcs) ==
  BagCardinality([c \in { x \in BagToSet(cs) : x.pc \in pcs } |-> CopiesIn(c, cs)])

\* number of performSessionCheck calls in flight
Checks(cs) ==
  BagCardinality([c \in { x \in BagToSet(cs) : x.kind = "check" } |-> CopiesIn(c, cs)])

\* the pcs of a call inside its forced sign-out
SignOutPcs == {"purged", "signOut", "signedOut"}

\* maxRetries is a number N
HasThreshold == phase # "initial" /\ configRef.maxRetries.t = "number"
Threshold == configRef.maxRetries.n

\* runs of the check path follow one another and the provider's signOut works
Sequential == ~overlapped /\ ~signOutFailed

NoNewSignOut ==
  /\ streakSignOuts' = streakSignOuts
  /\ AtPc(calls', SignOutPcs) = AtPc(calls, SignOutPcs)

\* C2: a validation that returns true resets consecutiveFailures to 0 and
\* does not sign out (neither when the provider answers nor when the check
\* path resumes with the value true), and a failed validation that finds
\* the counter at 0 counts 1.
C2_SuccessResets ==
  [][ /\ ev' = "getUserOk" => (retryCountRef' = 0 /\ NoNewSignOut)
      /\ ev' = "returnedTrue" => (retryCountRef' = retryCountRef /\ NoNewSignOut)
      /\ (ev' \in {"counted", "purged"} /\ retryCountRef = 0) => retryCountRef' = 1
    ]_vars

\* a validation has returned true after one or more, fewer than maxRetries,
\* failed validations
C2_Witness ==
  /\ HasThreshold
  /\ ev = "getUserOk"
  /\ before >= 1 /\ before < Threshold
  /\ retryCountRef = 0
  /\ session.held

\* C3: with checks in flight together, each failed validation increments
\* consecutiveFailures by exactly one, and one threshold crossing produces
\* exactly one forced sign-out (one call of the provider's signOut), not one
\* per overlapping check.
C3_OneSignOutPerCrossing ==
  /\ ev \in {"counted", "purged"} => retryCountRef = before + 1
  /\ (HasThreshold /\ ~signOutFailed) => streakSignOuts <= 1

\* C4: a forced sign-out purges, then calls the provider's signOut, then
\* resets the counter; once the purge is done (and the provider's signOut is
\* not yet called) no cached artifact of the held credential remains in
\* local or session storage.
C4_PurgeLeavesNoArtifact ==
  /\ ev = "signOutCalled" => AtPc(calls, {"signOut"}) >= 1
  /\ ev = "reset" => retryCountRef = 0
  /\ (AtPc(calls, {"purged"}) >= 1 /\ session.held) =>
       /\ localStorage[KEY_SB].kind = "absent"
       /\ sessionStorage[KEY_SB].kind = "absent"

\* a call of validateSession starts in this step
ValidateStarts == ev' \in {"tick", "visibleCheck", "validateCall"}

\* C5: validate() on a credential whose decoded exp claim is earlier than
\* the current time makes no call to the auth provider and returns false.
C5_ExpiredNoProviderCall ==
  [][ (ValidateStarts /\ session.held /\ session.decodable
         /\ Lt(session.exp, Num(now))) =>
        /\ AtPc(calls', {"getUser"}) = AtPc(calls, {"getUser"})
        /\ AtPc(calls', {"validated"}) = AtPc(calls, {"validated"}) + 1
    ]_vars

\* the credential of the session is unexpired: no exp claim before now
Unexpired(c, t) == ~Lt(c.exp, Num(t))

\* C6: validate() returns false when no credential is held, when the claims
\* cannot be decoded and when the provider answers with an error, with no
\* user or by throwing; it asks the provider, and so can return true, only
\* for a held, decodable, unexpired credential, and returns true only when
\* the provider confirms a user.
C6_FailsClosed ==
  [][ /\ (ValidateStarts /\ (~session.held \/ ~session.decodable)) =>
           /\ AtPc(calls', {"getUser"}) = AtPc(calls, {"getUser"})
           /\ AtPc(calls', {"validated"}) = AtPc(calls, {"validated"}) + 1
      /\ (ValidateStarts /\ AtPc(calls', {"getUser"}) > AtPc(calls, {"getUser"})) =>
           (session.held /\ session.decodable /\ Unexpired(session, now))
      /\ ValidateStarts =>
           \A c \in BagToSet(calls') : c.pc = "validated" => (c.valid => CopiesIn(c, calls) > 0)
      /\ ev' = "getUserFailed" =>
           \E c \in BagToSet(calls') :
             c.pc = "validated" /\ ~c.valid /\ CopiesIn(c, calls') > CopiesIn(c, calls)
    ]_vars

\* C7: every option the caller does not supply takes its default and a
\* supplied option overrides only that option, whether the controller is
\* created by the hook or through SessionManagerProvider.
C7_DefaultsFill ==
  phase # "initial" =>
    \A k \in OptionNames :
      configRef[k] = IF k \in DOMAIN creation.options
                     THEN creation.options[k] ELSE DEFAULT_CONFIG[k]

\* C8: the periodic check runs only while a credential is held: while the
\* controller is mounted the check timer is armed exactly when a credential
\* is held, and a periodic check starts only with a credential held.
C8_CheckTimerOnlyWithCredential ==
  /\ phase = "mounted" => (checkIntervalRef = "armed" <=> session.held)
  /\ checkIntervalRef = "armed" => phase = "mounted"
  /\ ev = "tick" => session.held

\* a forced sign-out has dropped the credential and the check timer is cleared
C8_Witness ==
  /\ phase = "mounted"
  /\ ev = "signedOut"
  /\ ~session.held
  /\ checkIntervalRef = "cleared"

\* C9: a transition of the document to visible while mounted with a
\* credential held starts one run of the check path (one more
\* performSessionCheck in flight, as a tick starts); a transition to hidden,
\* or to visible with no credential held, starts none.
C9_VisibleRunsCheck ==
  [][ documentHidden' # documentHidden =>
        IF phase = "mounted" /\ ~documentHidden' /\ session.held
        THEN /\ Checks(calls') = Checks(calls) + 1
             /\ AtPc(calls', {"getUser", "validated"}) =
                  AtPc(calls, {"getUser", "validated"}) + 1
        ELSE calls' = calls
    ]_vars

\* the document has become visible with a credential held and a check runs
C9_Witness ==
  /\ ev = "visibleCheck"
  /\ ~documentHidden
  /\ session.held
  /\ Checks(calls) >= 1

\* C10: the cleanup pass runs once when the controller starts, and the
\* cleanup timer is armed from then on while the controller is mounted,
\* whether or not a credential is held: a change of the credential leaves
\* the cleanup timer as it is, and a cleanup tick runs the pass.
C10_CleanupUnconditional ==
  [][ /\ (phase = "initial" /\ phase' = "mounted") =>
           /\ cleanupIntervalRef' = "armed"
           /\ localStorage' = cleanupExpiredSessions(localStorage, sessionStorage, now).local
           /\ sessionStorage' = cleanupExpiredSessions(localStorage, sessionStorage, now).session
      /\ session' # session => cleanupIntervalRef' = cleanupIntervalRef
      /\ phase' = "mounted" => cleanupIntervalRef' = "armed"
      /\ ev' = "cleanupTick" =>
           localStorage' = cleanupExpiredSessions(localStorage, sessionStorage, now).local
    ]_vars

\* a cleanup tick has run after a credential was held and dropped
C10_Witness ==
  /\ phase = "mounted"
  /\ ev = "cleanupTick"
  /\ ~session.held
  /\ checkIntervalRef = "cleared"
  /\ cleanupIntervalRef = "armed"

\* a cleanup pass runs in this step
CleanupRuns == ev' \in {"mount", "cleanupTick"}

\* the expiry a cached JSON object carries: expires_at, or else exp
EntryExpiry(v) == IF v.expires_at.t = "number" THEN v.expires_at ELSE v.exp

\* C11: a cleanup pass removes every entry with an auth-related key whose
\* JSON value carries an expiry (expires_at, or else exp) earlier than the
\* current time, and keeps every such entry whose expiry is not yet past or
\* whose value carries no expiry field.
C11_RemovesExpiredKeepsOthers ==
  [][ CleanupRuns =>
        \A k \in KeySet :
          /\ (IsLocalAuthKey(k) /\ localStorage[k].kind = "object") =>
               (localStorage'[k] = Absent <=>
                  Lt(EntryExpiry(localStorage[k]), Num(now)))
          /\ (IsSessionAuthKey(k) /\ sessionStorage[k].kind = "object") =>
               (sessionStorage'[k] = Absent <=>
                  Lt(EntryExpiry(sessionStorage[k]), Num(now)))
    ]_vars

\* C12: a cleanup pass completes and removes every entry with an
\* auth-related key whose value is not parseable JSON, in localStorage as
\* well as in sessionStorage, whatever entries come before it in the pass.
C12_RemovesUnparseable ==
  [][ CleanupRuns =>
        \A k \in KeySet :
          /\ (IsLocalAuthKey(k) /\ localStorage[k].kind = "corrupt") =>
               localStorage'[k] = Absent
          /\ (IsSessionAuthKey(k) /\ sessionStorage[k].kind = "corrupt") =>
               sessionStorage'[k] = Absent
    ]_vars

\* what a ref can hold
RefStates == {"undefined", "armed", "cleared"}

\* C13: after the controller is torn down neither the check timer nor the
\* cleanup timer is armed and neither fires, whatever credential changes
\* came before; clearing a ref that holds no timer leaves it as it is, and
\* clearing twice is the same as clearing once.
C13_NoTimerAfterTeardown ==
  /\ phase = "unmounted" =>
       /\ checkIntervalRef # "armed"
       /\ cleanupIntervalRef # "armed"
       /\ ev \notin {"tick", "cleanupTick"}
  /\ clearIntervalRef("undefined") = "undefined"
  /\ \A r \in RefStates :
       clearIntervalRef(clearIntervalRef(r)) = clearIntervalRef(r)

\* the controller is torn down while a credential is held and a check is in
\* flight: the check timer that was armed is cleared
C13_Witness ==
  /\ phase = "unmounted"
  /\ ev = "unmount"
  /\ session.held
  /\ checkIntervalRef = "cleared"
  /\ cleanupIntervalRef = "cleared"
  /\ Checks(calls) >= 1

\* C14: a failure of a provider call never corrupts the state of the check
\* path: a getUser that errors or throws leaves the counter as it is and the
\* check then counts one failure; a signOut that fails during a forced
\* sign-out leaves the check timer armed and the counter at 0.
C14_ProviderFailureTolerated ==
  /\ ev = "getUserFailed" => retryCountRef = before
  /\ ev \in {"counted", "purged"} => retryCountRef = before + 1
  /\ (ev = "signOutThrew" /\ phase = "mounted" /\ session.held) =>
       checkIntervalRef = "armed"
  /\ (ev = "signOutThrew" /\ ~overlapped) => retryCountRef = 0

\* the urls of a list of files, in order
Urls(files) == [i \in 1..Len(files) |-> files[i].url]

\* the elements of a sequence
Elems(seq) == { seq[i] : i \in 1..Len(seq) }

NoDuplicates(seq) ==
  \A i, j \in 1..Len(seq) : i < j => seq[i] # seq[j]

\* where x occurs first in seq
FirstIndex(seq, x) ==
  CHOOSE i \in 1..Len(seq) : seq[i] = x /\ \A j \in 1..(i - 1) : seq[j] # x

\* res is seq with every repeated element dropped but its first occurrence
KeepsFirst(res, seq) ==
  /\ NoDuplicates(res)
  /\ Elems(res) = Elems(seq)
  /\ \A i, j \in 1..Len(res) :
       i < j => FirstIndex(seq, res[i]) < FirstIndex(seq, res[j])

IsPrefix(a, b) == Len(a) <= Len(b) /\ SubSeq(b, 1, Len(a)) = a

\* C15: round trip: extract applied to the content a save produces from the
\* edited content c and the newly attached list R returns exactly the urls
\* of R, in R's order, deduplicated, whatever c contains.
C15_RoundTrip ==
  [][ ev' = "save" =>
        KeepsFirst(extractFileUrls(subtask'.content), Urls(attachedFiles))
    ]_vars

\* one `<!-- attachment: <url> -->` line per file
SentinelLines(files) ==
  Join([i \in 1..Len(files) |-> Sentinel(files[i].url)], <<"\n">>)

\* C16: a save of content c with the newly attached list R persists c
\* followed by one `<!-- attachment: <url> -->` line per reference, in R's
\* order, after a blank line when c is not empty; with c empty the persisted
\* content is the sentinel lines alone.
C16_SentinelLines ==
  [][ ev' = "save" =>
        subtask'.content =
          IF attachedFiles = << >> THEN editData.content
          ELSE IF editData.content # << >>
               THEN editData.content \o <<"\n", "\n">> \o SentinelLines(attachedFiles)
               ELSE SentinelLines(attachedFiles)
    ]_vars

\* C17: a save is append-only: the edited content is a prefix of the
\* persisted content, and with an empty newly attached list the persisted
\* content is the edited content.
C17_AppendOnly ==
  [][ ev' = "save" =>
        /\ IsPrefix(editData.content, subtask'.content)
        /\ attachedFiles = << >> => subtask'.content = editData.content
    ]_vars

\* a save has put file links after an edited content that is not empty
C17_Witness ==
  /\ ev = "save"
  /\ editData.content # << >>
  /\ Len(subtask.content) > Len(editData.content)
  /\ IsPrefix(editData.content, subtask.content)

\* a sentinel `<!-- attachment: <url> -->` stands at i with its url ending at j
IsSentinel(s, i, j) ==
  /\ At(s, i, CommentOpen)
  /\ j >= i + 4
  /\ \A k \in (i + 4)..j : k <= Len(s) /\ s[k] \notin WhiteSpace
  /\ At(s, j + 1, CommentClose)

\* the urls of the sentinels of s from position i on, first to last
RECURSIVE SentinelUrls(_, _)
SentinelUrls(s, i) ==
  IF i > Len(s) THEN << >>
  ELSE IF \E j \in i..Len(s) : IsSentinel(s, i, j)
       THEN <<SubSeq(s, i + 4, CHOOSE j \in i..Len(s) : IsSentinel(s, i, j))>>
              \o SentinelUrls(s, i + 1)
       ELSE SentinelUrls(s, i + 1)

\* a Markdown image `![alt](url)` stands at i, its url from m + 1 to j - 1,
\* and the url has the attachment path segment
IsImage(s, i, m, j) ==
  /\ At(s, i, <<"![">>)
  /\ m > i /\ At(s, m, <<"](">>)
  /\ \A k \in (i + 1)..(m - 1) : s[k] \notin {"![", "]("}
  /\ j > m + 1 /\ At(s, j, <<")">>)
  /\ \A k \in (m + 1)..(j - 1) : s[k] \notin WhiteSpace \cup {")"}
  /\ \E k \in (m + 1)..(j - 1) : s[k] = SEG

\* the urls of the Markdown images of s from position i on, first to last
RECURSIVE ImageUrls(_, _)
ImageUrls(s, i) ==
  IF i > Len(s) THEN << >>
  ELSE IF \E m, j \in i..Len(s) : IsImage(s, i, m, j)
       THEN LET mj == CHOOSE mj \in (i..Len(s)) \X (i..Len(s)) :
                        IsImage(s, i, mj[1], mj[2])
            IN <<SubSeq(s, mj[1] + 1, mj[2] - 1)>> \o ImageUrls(s, i + 1)
       ELSE ImageUrls(s, i + 1)

\* C18: extract returns the urls of all comment sentinels, first to last,
\* followed by the urls of all Markdown-image references to the attachment
\* path, first to last, with every repeated url dropped but its first
\* occurrence.
C18_SentinelsThenImages ==
  KeepsFirst(existingFiles,
             SentinelUrls(subtask.content, 1) \o ImageUrls(subtask.content, 1))

\* C19: no url occurs twice in a result of extract; a url that the content
\* carries as a sentinel and as a Markdown image is returned once.
C19_NoUrlTwice ==
  /\ NoDuplicates(existingFiles)
  /\ NoDuplicates(extractFileUrls(editData.content))

\* the content carries URL_A as a sentinel and as an image, and extract
\* gives it once
C19_Witness ==
  /\ subtask.content =
       Sentinel(URL_A) \o imageLink([name |-> <<"n">>, url |-> URL_A])
  /\ existingFiles = <<URL_A>>

\* C20: every url extract returns contains the segment /subtask-attachments/,
\* and isAttachmentUrl is true of a url exactly when it contains the segment.
C20_OnlyAttachmentUrls ==
  /\ \A i \in 1..Len(existingFiles) : isSubtaskAttachment(existingFiles[i])
  /\ \A u \in {URL_A, URL_B, URL_PAREN, URL_OTHER} \cup Elems(existingFiles) :
       isSubtaskAttachment(u) <=> \E k \in 1..Len(u) : u[k] = SEG

MimeSubtype(type) ==
  IF Len(type) = 3 /\ type[2] = "/" THEN <<type[3]>> ELSE <<"png">>

\* n is screenshot-<timestamp>.<ext>, the timestamp having no ":" and no "."
ScreenshotForm(n, ext) ==
  /\ Len(n) = 9 + Len(ext)
  /\ n[1] = "screenshot-"
  /\ \A i \in 2..8 : n[i] \notin {":", "."}
  /\ n[9] = "."
  /\ SubSeq(n, 10, Len(n)) = ext

\* the names the claim says are replaced
ReplacedName(name) ==
  \/ name \in { <<"image", ".", "png">>, <<"blob">>, << >> }
  \/ (Len(name) > 0 /\ name[1] = "image")

\* C22: an upload that returns gives a file named screenshot-<timestamp>.<ext>
\* with the mime subtype (or png) as ext when the file's name is image.png,
\* blob, empty or starts with image, and gives the file's own name otherwise
C22_DisplayName ==
  (outcome.op = "upload" /\ ~outcome.threw) =>
    IF ReplacedName(outcome.call.file.name)
    THEN ScreenshotForm(outcome.ref.name, MimeSubtype(outcome.call.file.type))
    ELSE outcome.ref.name = outcome.call.file.name

\* an upload of image.png of type image/jpeg has returned a screenshot name
\* that ends in jpeg
C22_Witness ==
  /\ outcome.op = "upload"
  /\ ~outcome.threw
  /\ outcome.call.file.name = <<"image", ".", "png">>
  /\ outcome.call.file.type = <<"image", "/", "jpeg">>
  /\ outcome.ref.name[Len(outcome.ref.name)] = "jpeg"

\* the upload calls in flight
UploadCalls == { c \in BagToSet(pending) : c.pc = "upload" }

\* key is ownerId/generatedId.ext
KeyForm(key, ownerId) ==
  /\ Len(key) >= 5
  /\ key[1] = ownerId
  /\ key[2] = "/"
  /\ key[3] \in generated
  /\ key[4] = "."
  /\ \A i \in 3..Len(key) : key[i] # "/"

\* C23: the key of every upload call is ownerId/generatedId.ext with the
\* ownerId the caller passed, and no two upload calls have the same key:
\* not two calls in flight, and not a call in flight and a call that ended
C23_KeysOwnedAndUnique ==
  /\ \A c \in UploadCalls :
       /\ KeyForm(c.key, c.userId)
       /\ CopiesIn(c, pending) = 1
       /\ \A d \in UploadCalls : d # c => d.key # c.key
       /\ \A o \in store : o.bytes = "new" => o.key # c.key
       /\ outcome.op = "upload" => outcome.key # c.key
  /\ outcome.op = "upload" => KeyForm(outcome.key, outcome.call.userId)

\* two uploads of the same file by the same user are in flight
C23_Witness ==
  \E c, d \in UploadCalls :
    /\ c # d
    /\ c.file = d.file
    /\ c.userId = d.userId
    /\ c.file.name = <<"report", ".", "pdf">>

\* C24: an upload whose key is already in the store throws, and the object
\* stored under that key is still there, with the bytes it had
C24_NeverReplaces ==
  [][ (ev' = "uploadSettled" /\ ObjectsAt(store, outcome'.key) # {})
        => /\ outcome'.threw
           /\ ObjectsAt(store', outcome'.key) = ObjectsAt(store, outcome'.key)
    ]_vars

\* an upload was answered with "already exists", and the old object is there
C24_Witness ==
  /\ outcome.op = "upload"
  /\ outcome.threw
  /\ outcome.reply = "The resource already exists"
  /\ outcome.key = OLD_OBJECT.key
  /\ OLD_OBJECT \in store

\* C27: remove(url, ownerId) targets a key in ownerId's folder, and for the
\* url of an object of that owner's folder, as upload returns it, the key it
\* targets is the key of that object
C27_RemoveTargetsUploadedKey ==
  [][ ev' = "deleteSettled" =>
        /\ foldername1(outcome'.key) = outcome'.call.userId
        /\ \A o \in store :
             (getPublicUrl(o.key) = outcome'.ref.url
                /\ foldername1(o.key) = outcome'.call.userId)
               => outcome'.key = o.key
    ]_vars

\* C25: when the store's answer to an upload is an error, the upload throws
\* with the store's message and returns no file, the attached files and the
\* edited and persisted content are as before, and the toast shows the message
C25_FailedWriteAppliesNothing ==
  [][ (ev' \in {"uploaded", "uploadFailed"} /\ outcome'.reply # "")
        => /\ outcome'.threw
           /\ outcome'.ref = NoRef
           /\ outcome'.message = <<"Failed to upload file: ", outcome'.reply>>
           /\ attachedFiles' = attachedFiles
           /\ editData' = editData
           /\ subtask' = subtask
           /\ store' = store
           /\ toast'.title = "Upload failed"
           /\ toast'.description = outcome'.message
    ]_vars

\* an upload was refused by the store while the subtask is edited
C25_Witness ==
  /\ ev = "uploadFailed"
  /\ isEditing
  /\ outcome.reply = "new row violates row-level security policy"
  /\ toast.description = <<"Failed to upload file: ", outcome.reply>>

\* C26: a file selected while no user is known starts no call: none is in
\* flight afterwards, and the store and the attached files are as before
C26_NoUserFailsFast ==
  [][ (ev' = "select" /\ authUser = "none")
        => /\ pending' = pending
           /\ store' = store
           /\ attachedFiles' = attachedFiles
    ]_vars

\* C28: when an edit starts no file is attached
C28_EditStartsEmpty == ev = "edit" => attachedFiles = << >>

\* C29: removing an attached file starts no call and leaves the store, the
\* persisted subtask and the edited content as they are; one entry leaves the
\* list, the others stay in their order, and the object of the removed entry
\* is still in the store
C29_RemoveLeavesStore ==
  [][ ev' = "removed"
        => /\ store' = store
           /\ pending' = pending
           /\ outcome' = outcome
           /\ subtask' = subtask
           /\ editData' = editData
           /\ \E i \in 1..Len(attachedFiles) :
                /\ attachedFiles' = SubSeq(attachedFiles, 1, i - 1)
                     \o SubSeq(attachedFiles, i + 1, Len(attachedFiles))
                /\ \E o \in store' : getPublicUrl(o.key) = attachedFiles[i].url
    ]_vars

\* one of two uploaded files was removed from the list, and both objects
\* are in the store
C29_Witness ==
  /\ ev = "removed"
  /\ Len(attachedFiles) = 1
  /\ Cardinality({ o \in store : o.bytes = "new" }) = 2

\* the number of image links that start in s
RECURSIVE LinkCount(_)
LinkCount(s) ==
  IF s = << >> THEN 0
  ELSE (IF s[1] = "![" THEN 1 ELSE 0) + LinkCount(Tail(s))

\* C30: a save that is accepted persists the edited name and one content:
\* the edited content, then one link for each attached file and no other
\* link, so that a url is in the persisted content only if it is in the
\* edited content or in the list; after it the subtask is shown and the list
\* is empty
C30_SavePersistsEncodedList ==
  [][ ev' = "save"
        => /\ isEditing /\ ~isEditing'
           /\ attachedFiles' = << >>
           /\ subtask'.name = editData.name
           /\ IsPrefix(editData.content, subtask'.content)
           /\ \A i \in 1..Len(attachedFiles) :
                Includes(subtask'.content, imageLink(attachedFiles[i]))
           /\ LinkCount(subtask'.content)
                = LinkCount(editData.content) + Len(attachedFiles)
           /\ \A u \in {URL_A, URL_B, URL_PAREN} :
                Includes(subtask'.content, <<u[4]>>)
                  => \/ Includes(editData.content, <<u[4]>>)
                     \/ \E i \in 1..Len(attachedFiles) : attachedFiles[i].url = u
    ]_vars

\* a save has persisted the links of two attached files after a text
C30_Witness ==
  /\ ev = "save"
  /\ ~isEditing
  /\ attachedFiles = << >>
  /\ LinkCount(subtask.content) = 2
  /\ subtask.content[1] = "t"
  /\ Includes(subtask.content, URL_A)
  /\ Includes(subtask.content, URL_B)

\* C35: the counter is never below 0 or above maxRetries, and while no check
\* is in flight it is below maxRetries
C35_CounterInRange ==
  HasThreshold =>
    /\ retryCountRef >= 0
    /\ retryCountRef <= Threshold
    /\ Checks(calls) = 0 => retryCountRef < Threshold

\* C36: a credential that is issued starts with a counter of 0
C36_NewCredentialStartsAtZero == ev = "signIn" => retryCountRef = 0

\* C37: isActive is true exactly when the check timer is armed
C37_IsActiveIffArmed == isActive <=> checkIntervalRef = "armed"

\* a key with one of the words supabase, auth, session, token in it
AuthPattern(key) ==
  \E w \in {"supabase", "auth", "session", "token"} : Includes(key, <<w>>)

\* C40: a cleanup pass leaves every entry as it is or removes it, leaves the
\* entries whose key has none of the auth words in it, and a second pass at
\* the same time changes nothing
C40_CleanupOnlyRemoves ==
  [][ CleanupRuns =>
        /\ \A k \in KeySet :
             /\ localStorage'[k] \in {localStorage[k], Absent}
             /\ sessionStorage'[k] \in {sessionStorage[k], Absent}
             /\ ~AuthPattern(k) =>
                  /\ localStorage'[k] = localStorage[k]
                  /\ sessionStorage'[k] = sessionStorage[k]
        /\ cleanupExpiredSessions(localStorage', sessionStorage', now')
             = [local |-> localStorage', session |-> sessionStorage']
    ]_vars

\* a pass at time 2 has left no entry under the legacy key, an entry under
\* the provider's key and the unparseable entry of another feature
C40_Witness ==
  /\ ev = "cleanupTick"
  /\ now = 2
  /\ sessionStorage[KEY_LEGACY] = Absent
  /\ localStorage[KEY_LEGACY] = Absent
  /\ sessionStorage[KEY_SB].kind = "object"
  /\ sessionStorage[KEY_THEME] = Corrupt
  /\ localStorage[KEY_THEME] = Corrupt

\* C31: a cancel shows the subtask again with the persisted subtask as it
\* was when the edit began (nothing but an accepted save changes it during
\* an edit), starts no call and leaves the store as it is, so that the
\* objects of the files attached in the session are still in the store
C31_DiscardPersistsNothing ==
  [][ /\ (isEditing /\ ev' # "save") => subtask' = subtask
      /\ ev' = "cancel" =>
           /\ isEditing /\ ~isEditing'
           /\ subtask' = subtask
           /\ store' = store
           /\ outcome' = outcome
           /\ BagCardinality(pending') = BagCardinality(pending)
           /\ \A i \in 1..Len(attachedFiles) :
                \E o \in store' : getPublicUrl(o.key) = attachedFiles[i].url
    ]_vars

\* an edit was cancelled, and an object uploaded before is in the store with
\* no reference to it in the persisted content
C31_Witness ==
  /\ ev = "cancel"
  /\ ~isEditing
  /\ attachedFiles = << >>
  /\ \E o \in store :
       /\ o.bytes = "new"
       /\ ~Includes(subtask.content, getPublicUrl(o.key))

\* C32: every attached file has the public URL of an object that is in the
\* store, and no attached file has the URL of an upload that is in flight or
\* of the upload that failed last
C32_OnlyCompletedUploads ==
  \A i \in 1..Len(attachedFiles) :
    /\ \E o \in store : getPublicUrl(o.key) = attachedFiles[i].url
    /\ \A c \in UploadCalls : getPublicUrl(c.key) # attachedFiles[i].url
    /\ (outcome.op = "upload" /\ outcome.reply # "")
         => getPublicUrl(outcome.key) # attachedFiles[i].url

\* of two uploads issued one after the other, one has completed and has its
\* entry while the other is in flight
C32_Witness ==
  /\ isEditing
  /\ Len(attachedFiles) = 1
  /\ UploadCalls # {}
  /\ ev = "uploaded"

\* C38: while a call of the mounted widget is in flight the widget's
\* isUploading is true
C38_IndicatorWhileInFlight ==
  (\E c \in BagToSet(pending) : ~c.stale) => isUploading

\* a string that is empty or has whitespace only
Blank(s) == \A i \in 1..Len(s) : s[i] \in WhiteSpace

\* C39: a save while the edited name is blank leaves the persisted subtask,
\* the edit mode, the edited name and content and the attached files as they
\* are, and every save while editing with such a name is of this kind
C39_BlankSaveIsNoOp ==
  [][ /\ (ev' \in {"save", "saveIgnored"} /\ isEditing /\ Blank(editData.name))
          => /\ ev' = "saveIgnored"
             /\ isEditing'
             /\ UNCHANGED <<subtask, editData, attachedFiles, store>>
      /\ ev' = "saveIgnored" => Blank(editData.name)
    ]_vars

\* a save was ignored for a name of whitespace, with a changed content and an
\* attached file waiting
C39_Witness ==
  /\ ev = "saveIgnored"
  /\ isEditing
  /\ editData.name = <<" ">>
  /\ editData.content # subtask.content
  /\ attachedFiles # << >>

\* C34: a step of the store adds, replaces or removes only objects whose
\* first folder is the signed-in user, and an upload or a remove called with
\* another owner than the signed-in user leaves every object as it is, the
\* upload throwing
C34_StoreKeepsToOwner ==
  [][ /\ \A o \in (store' \ store) \cup (store \ store') :
           foldername1(o.key) = authUser
      /\ (ev' = "uploadSettled" /\ outcome'.call.userId # authUser)
           => store' = store /\ outcome'.threw
      /\ (ev' = "deleteSettled" /\ outcome'.call.userId # authUser)
           => store' = store
    ]_vars

\* a signed-in user uploaded with the id of another user, the request got
\* through, and the store refused it
C34_Witness ==
  /\ ev = "uploadSettled"
  /\ authUser \in Users
  /\ outcome.call.userId \in Users \ {authUser}
  /\ outcome.reply = "new row violates row-level security policy"
  /\ outcome.threw

\* the spans stripForDisplay is to act on, and what it puts in their place
StripSpans ==
  { [span |-> imageLink([name |-> <<"n">>, url |-> u]), by |-> <<"[image]">>] :
      u \in {URL_A, URL_PAREN} }
  \cup { [span |-> Sentinel(URL_A), by |-> << >>] }

\* content from position i on with every span replaced and every other
\* token kept
RECURSIVE Stripped(_, _)
Stripped(s, i) ==
  IF i > Len(s) THEN << >>
  ELSE IF \E p \in StripSpans : At(s, i, p.span)
  THEN LET p == CHOOSE q \in StripSpans : At(s, i, q.span)
       IN p.by \o Stripped(s, i + Len(p.span))
  ELSE <<s[i]>> \o Stripped(s, i + 1)

\* C33: the exported text of the description, and of a subtask's content
\* after its indent, is the content with every image link replaced by
\* [image], every sentinel deleted and every other token kept in place
C33_StripLeavesOtherText ==
  \A i \in 1..Len(pdf) :
    /\ pdf[i].fontSize = 10 => pdf[i].text = Stripped(task.content, 1)
    /\ pdf[i].fontSize = 9 =>
         pdf[i].text = <<" ", " ", " ">> \o Stripped(task.subtasks[1].content, 1)

====
